---- MODULE Spec2Model ----
(***************************************************************************)
(* Model of the rate-limited, retrying upstream adapter of Moonshot-GRP:   *)
(* TokenBucket.acquire and OpenLigaProvider._request_with_retry            *)
(* (src/app/providers/openliga.py).                                        *)
(*                                                                         *)
(* Time is a discrete wall clock `now` counted in seconds.  Token counts   *)
(* are fixed-point numbers counted in 1/TokenUnit of a token, so that a    *)
(* refill rate RATE_LIMIT_RPS of 0.5 tokens per second is exactly          *)
(* RateUnitsPerTick = 1 unit per second and every product elapsed * rate   *)
(* and every quotient (1 - tokens) / rate of the code is exact.            *)
(* Backoff delays are counted in milliseconds.                             *)
(*                                                                         *)
(* The DecisionMapper (src/app/decision_mapper.py), the provider           *)
(* operations list_leagues, get_league_matches, get_team and get_match,    *)
(* and the endpoint execute_proxy (src/app/main.py) are modelled over JSON *)
(* values; there the retry loop is summarised by the last answer of the    *)
(* upstream.  ListLeagues and GetLeagueMatches requests are also modelled  *)
(* end to end, each HTTP request of the retry loop going through the       *)
(* limiter (SpecFetch).                                                    *)
(***************************************************************************)
EXTENDS Integers, Sequences, FiniteSets, TLC

\* ---------------------------------------------------------------- bounds
NumCallers == 2          \* concurrent tasks sharing the limiter
MaxTime == 4             \* the clock stops advancing at this instant

\* ------------------------------------------------- provider configuration
TokenUnit == 2                 \* fixed-point scale: 1 token = 2 units
RateUnitsPerTick == 1          \* RATE_LIMIT_RPS, set to 0.5 tokens/s = 1 unit/s
RATE_LIMIT_BURST == 2          \* bucket capacity in whole tokens
MAX_RETRIES == 2
BACKOFF_BASE_MS == 500         \* BACKOFF_BASE_SECONDS, set to 0.5
BACKOFF_MAX_MS == 1000         \* BACKOFF_MAX_SECONDS, set to 1.0
JITTER_ENABLED == TRUE
MsPerTick == 1000

Callers == 1..NumCallers
NoCaller == 0
Capacity == RATE_LIMIT_BURST * TokenUnit

Min(a, b) == IF a <= b THEN a ELSE b
CeilDiv(a, b) == (a + b - 1) \div b

RECURSIVE Pow2(_)
Pow2(n) == IF n = 0 THEN 1 ELSE 2 * Pow2(n - 1)

\* ------------------------------------------------------ upstream outcomes
NoContentType == "<absent>"
Json == "application/json"
Html == "Text/HTML; charset=utf-8"
Faults == {"TimeoutException", "NetworkError"}

Response(status, ct) ==
    [kind |-> "response", status_code |-> status, content_type |-> ct]

\* what one HTTP request can produce: a response or a network fault
Outcomes ==
    {Response(200, Json), Response(200, Html), Response(200, NoContentType),
     Response(404, Html), Response(429, Html), Response(500, Json)}
    \cup [kind : {"fault"}, fault : Faults]

\* mutant: the header is compared without .lower()
HeaderAsSent(ct) == IF ct = NoContentType THEN "" ELSE ct

\* response.headers.get("content-type", "").lower()
HeaderLower(ct) ==
    CASE ct = NoContentType -> ""
      [] ct = Html -> "text/html; charset=utf-8"
      [] OTHER -> ct

\* "text/html" in content_type
ContainsTextHtml(s) == s \in {"text/html", "text/html; charset=utf-8"}

\* mutant: the content type is tested whatever the status
IsHtmlAnyStatus(o) ==
    /\ o.kind = "response"
    /\ ContainsTextHtml(HeaderLower(o.content_type))

\* lines 75-76: "text/html" in content_type and response.status_code == 200
IsHtml200(o) ==
    /\ o.kind = "response"
    /\ ContainsTextHtml(HeaderLower(o.content_type))
    /\ o.status_code = 200

\* mutant: line 85 lets only statuses below 400 through
NonRetryableStatusBelow400(o) ==
    /\ o.kind = "response"
    /\ o.status_code < 400

\* the status test of line 85
NonRetryableStatus(o) ==
    /\ o.kind = "response"
    /\ o.status_code < 500
    /\ o.status_code # 429

\* jitter draws: u in 0..JitterSteps stands for random.uniform's result
\* base_delay * 0.1 * u / JitterSteps
JitterSteps == 1

\* mutant: the cap BACKOFF_MAX_SECONDS is applied before the jitter is added
backoff_delay_cap_first(base, max, jitter_enabled, attempt, u) ==
    LET base_delay == base * Pow2(attempt)
        jitter == (base_delay * u) \div (10 * JitterSteps)
    IN  IF jitter_enabled
        THEN Min(base_delay, max) + jitter
        ELSE base_delay

\* mutant: the jitter is up to twice the exponential delay, not a tenth
backoff_delay_wide_jitter(base, max, jitter_enabled, attempt, u) ==
    LET base_delay == base * Pow2(attempt)
        jitter == (base_delay * 2 * u) \div JitterSteps
    IN  IF jitter_enabled
        THEN Min(base_delay + jitter, max)
        ELSE Min(base_delay, max)

\* lines 57-63 for a configuration (base, max, jitter_enabled), in ms
backoff_delay(base, max, jitter_enabled, attempt, u) ==
    LET base_delay == base * Pow2(attempt)
        jitter == (base_delay * u) \div (10 * JitterSteps)
    IN  IF jitter_enabled
        THEN Min(base_delay + jitter, max)
        ELSE Min(base_delay, max)

\* _calculate_backoff_delay under the provider's configuration
calculate_backoff_delay(attempt, u) ==
    backoff_delay(BACKOFF_BASE_MS, BACKOFF_MAX_MS, JITTER_ENABLED, attempt, u)

\* ------------------------------------------------------------- JSON values
\* what json decoding yields and what a payload carries: None, str, number,
\* list, dict
JNull == [json |-> "null"]
JStr(t) == [json |-> "str", text |-> t]
JNum(n) == [json |-> "num", value |-> n]
JList(items) == [json |-> "list", items |-> items]
JMap(fields) == [json |-> "map", fields |-> fields]

EmptyMap == JMap(<<>>)
EmptyList == JList(<<>>)

\* isinstance(data, list), isinstance(data, dict)
IsList(data) == data.json = "list"
IsMap(data) == data.json = "map"

\* the truth value Python gives a JSON value
Truthy(v) ==
    CASE v.json = "null" -> FALSE
      [] v.json = "str" -> v.text # ""
      [] v.json = "num" -> v.value # 0
      [] v.json = "list" -> v.items # <<>>
      [] v.json = "map" -> DOMAIN v.fields # {}

\* --------------------------------------------------------- DecisionMapper
\* self.operations: operationType -> handlers
operations ==
    [o \in {"ListLeagues", "GetLeagueMatches", "GetTeam", "GetMatch"} |->
       CASE o = "ListLeagues" ->
              [validate |-> "_validate_list_leagues",
               execute |-> "_execute_list_leagues",
               normalize |-> "_normalize_list_leagues"]
         [] o = "GetLeagueMatches" ->
              [validate |-> "_validate_get_league_matches",
               execute |-> "_execute_get_league_matches",
               normalize |-> "_normalize_get_league_matches"]
         [] o = "GetTeam" ->
              [validate |-> "_validate_get_team",
               execute |-> "_execute_get_team",
               normalize |-> "_normalize_get_team"]
         [] o = "GetMatch" ->
              [validate |-> "_validate_get_match",
               execute |-> "_execute_get_match",
               normalize |-> "_normalize_get_match"]]

VARIABLE self_operations   \* DecisionMapper.operations, the registry

\* mutant: self.operations.get(operation_type, <the first entry>)
get_operation_with_default(name) ==
    IF name \in DOMAIN self_operations
    THEN [raised |-> FALSE, operation |-> self_operations[name]]
    ELSE [raised |-> FALSE, operation |-> self_operations["ListLeagues"]]

\* lines 42-46
get_operation(name) ==
    IF name \notin DOMAIN self_operations
    THEN [raised |-> TRUE, exception |-> "ValueError",
          message |-> "Unknown operationType: " \o name]
    ELSE [raised |-> FALSE, operation |-> self_operations[name]]

\* (False, {"missing_field": f, "reason": ...}) and (True, None)
Invalid(field, reason) ==
    [is_valid |-> FALSE,
     details |-> [missing_field |-> field, reason |-> reason]]
Valid == [is_valid |-> TRUE, details |-> JNull]

_validate_list_leagues(p) == Valid

_validate_get_league_matches(p) ==
    IF "leagueId" \notin DOMAIN p \/ ~Truthy(p["leagueId"])
    THEN Invalid("leagueId", "leagueId is required")
    ELSE Valid

\* mutant: only `"teamId" not in payload` is tested
_validate_get_team_presence_only(p) ==
    IF "teamId" \notin DOMAIN p
    THEN Invalid("teamId", "teamId is required")
    ELSE Valid

_validate_get_team(p) ==
    IF "teamId" \notin DOMAIN p \/ ~Truthy(p["teamId"])
    THEN Invalid("teamId", "teamId is required")
    ELSE Valid

_validate_get_match(p) ==
    IF "matchId" \notin DOMAIN p \/ ~Truthy(p["matchId"])
    THEN Invalid("matchId", "matchId is required")
    ELSE Valid

\* operation["validate"](payload)
validate(handler, p) ==
    CASE handler = "_validate_list_leagues" -> _validate_list_leagues(p)
      [] handler = "_validate_get_league_matches" ->
             _validate_get_league_matches(p)
      [] handler = "_validate_get_team" -> _validate_get_team(p)
      [] handler = "_validate_get_match" -> _validate_get_match(p)

\* mutant: `len(data)` is taken of every container, list or not
_normalize_list_leagues_len_of_any(data) ==
    [leagues |-> IF IsList(data) THEN data ELSE EmptyList,
     count |-> IF IsList(data) THEN Len(data.items)
               ELSE IF IsMap(data) THEN Cardinality(DOMAIN data.fields)
               ELSE 0]

_normalize_list_leagues(data) ==
    [leagues |-> IF IsList(data) THEN data ELSE EmptyList,
     count |-> IF IsList(data) THEN Len(data.items) ELSE 0]

_normalize_get_league_matches(data) ==
    [matches |-> IF IsList(data) THEN data ELSE EmptyList,
     count |-> IF IsList(data) THEN Len(data.items) ELSE 0]

_normalize_get_team(data) == [team |-> IF IsMap(data) THEN data ELSE EmptyMap]

_normalize_get_match(data) == [match |-> IF IsMap(data) THEN data ELSE EmptyMap]

\* operation["normalize"](result)
normalize(handler, data) ==
    CASE handler = "_normalize_list_leagues" -> _normalize_list_leagues(data)
      [] handler = "_normalize_get_league_matches" ->
             _normalize_get_league_matches(data)
      [] handler = "_normalize_get_team" -> _normalize_get_team(data)
      [] handler = "_normalize_get_match" -> _normalize_get_match(data)

\* ------------------------------------------------- provider operations
\* str(x) of an identifier
PyStr(v) ==
    CASE v.json = "str" -> v.text
      [] v.json = "num" -> ToString(v.value)
      [] v.json = "null" -> "None"
      [] OTHER -> "<repr>"

\* d.get(key, default) of a dict
Get(d, key, default) ==
    IF key \in DOMAIN d.fields THEN d.fields[key] ELSE default

\* the text of an exception: a fixed wording and the values formatted into it
Msg(text, embeds) == [text |-> text, embeds |-> embeds]

Raise(exception, message) ==
    [raised |-> TRUE, exception |-> exception, message |-> message]
Return(value) == [raised |-> FALSE, value |-> value]

\* a body that json decoding refuses
NotJson == [json |-> "invalid"]

\* response.text and what response.json() makes of it
Body(text, parsed) == [text |-> text, parsed |-> parsed]

\* `not content.strip()`
IsBlank(text) == text \in {"", "  "}

\* how _request_with_retry ends when the last answer of the upstream is o
request_with_retry(url, o) ==
    IF o.kind = "fault"
    THEN Raise(o.fault, Msg("", {}))
    ELSE IF IsHtml200(o)
    THEN Raise("ValueError",
               Msg("API returned HTML instead of JSON.",
                   {HeaderLower(o.content_type), url, o.body.text}))
    ELSE Return(o)

\* mutant: the body is looked at before raise_for_status()
parse_response_body_first(o) ==
    IF IsBlank(o.body.text)
    THEN Raise("ValueError", Msg("Empty response from API", {}))
    ELSE IF o.status_code >= 400
    THEN Raise("HTTPStatusError", Msg("", {}))
    ELSE IF o.body.parsed = NotJson
    THEN Raise("ValueError",
               Msg("Failed to parse JSON response.",
                   {o.content_type, o.body.text}))
    ELSE Return(o.body.parsed)

\* lines 110-122 and 127-139: raise_for_status(), the body, response.json()
parse_response(o) ==
    IF o.status_code >= 400
    THEN Raise("HTTPStatusError", Msg("", {}))
    ELSE IF IsBlank(o.body.text)
    THEN Raise("ValueError", Msg("Empty response from API", {}))
    ELSE IF o.body.parsed = NotJson
    THEN Raise("ValueError",
               Msg("Failed to parse JSON response.",
                   {o.content_type, o.body.text}))
    ELSE Return(o.body.parsed)

\* lines 109-122 and 126-139: the request, then the response it returned
fetch_json(url, o) ==
    LET r == request_with_retry(url, o)
    IN  IF r.raised THEN r ELSE parse_response(o)

\* lines 109-122 and 126-139 where the call of _request_with_retry ended as
\* res on the answer o: what it raised leaves the operation, the response
\* it returned is checked and parsed
received(url, res, o) ==
    CASE res.kind = "raise" -> Raise(res.fault, Msg("", {}))
      [] res.kind = "ValueError" ->
           Raise("ValueError",
                 Msg("API returned HTML instead of JSON.",
                     {HeaderLower(o.content_type), url, o.body.text}))
      [] OTHER -> parse_response(o)

list_leagues(o) == fetch_json("/getavailableleagues", o)

get_league_matches(league_id, o) ==
    fetch_json("/getmatchdata/" \o league_id, o)

common_leagues == <<"bl1", "bl2", "pl", "sa", "ll">>

\* the candidate list of get_match: the default league
match_leagues == <<"bl1">>

NoHit == [hit |-> "none"]
ScanRaised == [hit |-> "raised"]
Hit(value) == [hit |-> "found", value |-> value]

RECURSIVE scan_team(_, _, _)
\* lines 153-157 over matches[i..]; a match or team that is no dict raises
scan_team(items, i, team_id) ==
    IF i > Len(items) THEN NoHit
    ELSE IF ~IsMap(items[i]) THEN ScanRaised
    ELSE LET team1 == Get(items[i], "team1", EmptyMap)
             team2 == Get(items[i], "team2", EmptyMap)
         IN  IF ~IsMap(team1) THEN ScanRaised
             ELSE IF PyStr(Get(team1, "teamId", JNull)) = PyStr(team_id)
             THEN Hit(team1)
             ELSE IF ~IsMap(team2) THEN ScanRaised
             ELSE IF PyStr(Get(team2, "teamId", JNull)) = PyStr(team_id)
             THEN Hit(team2)
             ELSE scan_team(items, i + 1, team_id)

\* mutant: team2 is compared before team1
scan_league_team2_first(r, team_id) ==
    IF r.raised \/ ~IsList(r.value) THEN ScanRaised
    ELSE LET items == r.value.items
             hits == {i \in 1..Len(items) :
                        \/ PyStr(Get(Get(items[i], "team1", EmptyMap),
                                     "teamId", JNull)) = PyStr(team_id)
                        \/ PyStr(Get(Get(items[i], "team2", EmptyMap),
                                     "teamId", JNull)) = PyStr(team_id)}
         IN  IF hits = {} THEN NoHit
             ELSE LET i == CHOOSE h \in hits : \A k \in hits : h <= k
                      team2 == Get(items[i], "team2", EmptyMap)
                  IN  IF PyStr(Get(team2, "teamId", JNull)) = PyStr(team_id)
                      THEN Hit(team2)
                      ELSE Hit(Get(items[i], "team1", EmptyMap))

\* lines 152-159 for one league: what the try block makes of the fetch r
scan_league(r, team_id) ==
    IF r.raised THEN ScanRaised
    ELSE IF IsList(r.value) THEN scan_team(r.value.items, 1, team_id)
    ELSE IF r.value.json \in {"null", "num"} THEN ScanRaised
    ELSE IF r.value = EmptyMap \/ r.value = JStr("") THEN NoHit
    ELSE ScanRaised

RECURSIVE scan_match(_, _, _)
\* lines 175-177 over matches[i..]
scan_match(items, i, match_id) ==
    IF i > Len(items) THEN NoHit
    ELSE IF ~IsMap(items[i]) THEN ScanRaised
    ELSE IF PyStr(Get(items[i], "matchID", JNull)) = PyStr(match_id)
    THEN Hit(items[i])
    ELSE scan_match(items, i + 1, match_id)

TeamNotFound(team_id) ==
    Raise("ValueError", Msg("Team not found.", {PyStr(team_id)}))

MatchNotFound(match_id) ==
    Raise("ValueError", Msg("Match not found.", {PyStr(match_id)}))

\* mutant: the first match of the list is returned, whatever its id
get_match_first_entry(match_id, o) ==
    LET r == get_league_matches(match_leagues[1], o)
    IN  IF ~r.raised /\ IsList(r.value) /\ r.value.items # <<>>
        THEN Return(r.value.items[1])
        ELSE MatchNotFound(match_id)

\* lines 173-183: the default league is fetched and scanned; whatever goes
\* wrong is raised as the not-found error
get_match(match_id, o) ==
    LET r == get_league_matches(match_leagues[1], o)
        found == IF r.raised THEN ScanRaised
                 ELSE IF IsList(r.value)
                 THEN scan_match(r.value.items, 1, match_id)
                 ELSE IF r.value = EmptyMap \/ r.value = JStr("") THEN NoHit
                 ELSE ScanRaised
    IN  IF found.hit = "found" THEN Return(found.value)
        ELSE MatchNotFound(match_id)

\* --------------------------------------------------------- execute_proxy
\* the texts of the model in which "not found" occurs, in any letter case
HasNotFound(text) ==
    text \in {"Team not found.", "Match not found.", "not found",
              "<html><h1>404 Not Found</h1></html>", "Not Found",
              "/getmatchdata/not found"}

\* `"not found" in error_msg.lower()`
MentionsNotFound(message) ==
    \/ HasNotFound(message.text)
    \/ \E e \in message.embeds : HasNotFound(e)

HTTPException(status_code, detail) ==
    [status_code |-> status_code, success |-> FALSE, detail |-> detail]

\* lines 103-191: the reply made of what execute returned or raised
reply_of(handler, r) ==
    IF ~r.raised
    THEN [status_code |-> 200, success |-> TRUE,
          data |-> normalize(handler, r.value)]
    ELSE IF r.exception = "HTTPStatusError"
    THEN HTTPException(502, [error |-> Msg("Upstream API failed", {})])
    ELSE IF r.exception \in Faults
    THEN HTTPException(502, [error |-> Msg("Upstream API failed", {})])
    ELSE IF r.exception = "ValueError"
    THEN HTTPException(IF MentionsNotFound(r.message) THEN 404 ELSE 400,
                       [error |-> r.message])
    ELSE HTTPException(500, [error |-> Msg("Internal server error", {})])

\* ------------------------------------------------------------------ state
VARIABLES
    now,            \* time.time()
    tokens,         \* TokenBucket.tokens, in units
    last_update,    \* TokenBucket.last_update
    lockHolder,     \* TokenBucket._lock: the task holding it, or NoCaller
    waiters,        \* TokenBucket._lock: FIFO queue of tasks awaiting it
    pc,             \* position of each task
    until,          \* instant at which the task's current sleep may end
    acquired,       \* acquire() calls that returned to the task
    attempt,        \* loop variable of _request_with_retry
    last_exception, \* local of _request_with_retry
    result,         \* how the logical call ended
    requests,       \* HTTP requests issued by the logical call
    sleeps,         \* backoff sleeps started by the logical call
    lastReq,        \* observer: the HTTP request made by the latest step
    retryableSeen,  \* observer: outcomes so far that were 429 / >=500 / fault
    onlyStatus,     \* observer: every outcome so far was a 429 / >=500 response
    acq,            \* observer: the task's latest acquire()
    returnsAt,      \* observer: acquire() returns per instant
    fastNow,        \* observer: no-wait returns since the clock last moved
    availAtTick,    \* observer: refilled count when the clock last moved
    config,         \* backoff: the ProviderConfig the delays are computed under
    bo_attempt,     \* backoff: the attempt of the latest delay computed
    bo_delay,       \* backoff: the latest delay, in ms
    bo_prev,        \* backoff: the delay computed for the attempt before
    operation_type, \* ProxyRequest.operationType
    payload,        \* ProxyRequest.payload
    raw,            \* what execute produced, the argument of normalize
    mapped,         \* what the latest call into the DecisionMapper produced
    hpc,            \* position of execute_proxy
    league_idx,     \* get_team: position of the loop in common_leagues
    fetched,        \* observer: the calls of _request_with_retry, in order
    reply,          \* the HTTP reply of execute_proxy
    serving,        \* the request each task serves: operation, result, reply
    trail           \* observer: the kinds of the answers to the task's requests

bucketVars == <<tokens, last_update, lockHolder, waiters>>
callVars == <<attempt, last_exception, result, requests, sleeps>>
histVars == <<acq, returnsAt, fastNow, availAtTick>>
upstreamVars == <<lastReq, retryableSeen, onlyStatus>>
adapterVars ==
    <<now, pc, until, acquired, bucketVars, callVars, histVars, upstreamVars>>
backoffVars == <<config, bo_attempt, bo_delay, bo_prev>>
mapperVars == <<operation_type, payload, raw, mapped, self_operations>>
proxyVars == <<hpc, league_idx, fetched, reply>>
fetchVars == <<serving, trail>>
harnessVars == <<backoffVars, mapperVars, proxyVars, fetchVars>>
vars == <<adapterVars, harnessVars>>

NoResult == [kind |-> "none"]
NoReq == [caller |-> NoCaller]
NoAcq ==
    [how |-> "none", refilled |-> 0, start |-> 0, after |-> 0, slept |-> 0,
     updated |-> 0]

\* mutant: the refill forgets the cap min(self.burst, ...)
RefillUncapped(tok, elapsed) == tok + elapsed * RateUnitsPerTick

\* min(self.burst, self.tokens + elapsed * self.rate)
Refill(tok, elapsed) == Min(Capacity, tok + elapsed * RateUnitsPerTick)

\* (1 - self.tokens) / self.rate, in ticks; a sleep ends at the first
\* instant that is not earlier than its deadline
WaitTime(tok) == CeilDiv(TokenUnit - tok, RateUnitsPerTick)

NoConfig == [base |-> 0, max |-> 0, jitter |-> FALSE]
NoDelay == 0 - 1

\* no delay is being computed outside the retry loop
BackoffIdle ==
    /\ config = NoConfig
    /\ bo_attempt = NoDelay
    /\ bo_delay = NoDelay
    /\ bo_prev = NoDelay

NoCall == [fn |-> "none"]
NoReply == [status_code |-> 0]
NoAnswer == [kind |-> "none"]
NoServing == [operation_type |-> "", payload |-> <<>>, answer |-> NoAnswer,
              raw |-> JNull, reply |-> NoReply]

\* no task serves a request through the adapter
FetchIdle ==
    /\ serving = [c \in Callers |-> NoServing]
    /\ trail = [c \in Callers |-> <<>>]

\* no request is being served
MapperIdle ==
    /\ operation_type = ""
    /\ payload = <<>>
    /\ raw = JNull
    /\ mapped = NoCall
    /\ hpc = "off"
    /\ league_idx = 0
    /\ fetched = <<>>
    /\ reply = NoReply
    /\ self_operations = operations
    /\ FetchIdle

\* mutant: the bucket is created empty
InitialTokensNone == Capacity - Capacity

\* line 16: `self.tokens = burst`
InitialTokens == Capacity

AdapterInit ==
    /\ now = 0
    /\ tokens = InitialTokens
    /\ last_update = 0
    /\ lockHolder = NoCaller
    /\ waiters = <<>>
    /\ pc = [c \in Callers |-> "idle"]
    /\ until = [c \in Callers |-> 0]
    /\ acquired = [c \in Callers |-> 0]
    /\ attempt = [c \in Callers |-> 0]
    /\ last_exception = [c \in Callers |-> "None"]
    /\ result = [c \in Callers |-> NoResult]
    /\ requests = [c \in Callers |-> 0]
    /\ sleeps = [c \in Callers |-> 0]
    /\ lastReq = NoReq
    /\ retryableSeen = [c \in Callers |-> 0]
    /\ onlyStatus = [c \in Callers |-> TRUE]
    /\ acq = [c \in Callers |-> NoAcq]
    /\ returnsAt = [t \in 0..MaxTime |-> 0]
    /\ fastNow = 0
    /\ availAtTick = InitialTokens

Init == AdapterInit /\ BackoffIdle /\ MapperIdle

\* ------------------------------------------------------------ TokenBucket
\* mutant: release() frees the lock and wakes no waiter
ReleasedNoHandOver(c) ==
    /\ acquired' = [acquired EXCEPT ![c] = @ + 1]
    /\ lockHolder' = NoCaller
    /\ waiters' = waiters
    /\ pc' = [pc EXCEPT ![c] = "acquired"]

\* leaving `async with self._lock`: asyncio.Lock.release() passes the lock
\* to the first waiter, if any; acquire() returns
Released(c) ==
    /\ acquired' = [acquired EXCEPT ![c] = @ + 1]
    /\ IF waiters = <<>>
       THEN /\ lockHolder' = NoCaller
            /\ waiters' = waiters
            /\ pc' = [pc EXCEPT ![c] = "acquired"]
       ELSE /\ lockHolder' = Head(waiters)
            /\ waiters' = Tail(waiters)
            /\ pc' = [pc EXCEPT ![c] = "acquired", ![Head(waiters)] = "locked"]

\* mutant: the lock excludes nobody, every task enters at once
TryLockBarging(c) ==
    /\ pc[c] = "acquire"
    /\ lockHolder' = c
    /\ pc' = [pc EXCEPT ![c] = "locked"]
    /\ UNCHANGED <<now, tokens, last_update, waiters, until, acquired>>
    /\ UNCHANGED callVars

\* `async with self._lock`: enter, or queue behind the holder
TryLock(c) ==
    /\ pc[c] = "acquire"
    /\ IF lockHolder = NoCaller /\ waiters = <<>>
       THEN /\ lockHolder' = c
            /\ pc' = [pc EXCEPT ![c] = "locked"]
            /\ waiters' = waiters
       ELSE /\ waiters' = Append(waiters, c)
            /\ pc' = [pc EXCEPT ![c] = "lock_wait"]
            /\ lockHolder' = lockHolder
    /\ UNCHANGED <<now, tokens, last_update, until, acquired>>
    /\ UNCHANGED callVars

\* mutant: line 28 tests `self.tokens > 0`, a fraction of a token admits
RefillAndConsumeFraction(c) ==
    /\ pc[c] = "locked"
    /\ LET elapsed == now - last_update
           refilled == Refill(tokens, elapsed)
       IN  /\ last_update' = now
           /\ IF refilled > 0
              THEN /\ tokens' = IF refilled >= TokenUnit
                                THEN refilled - TokenUnit ELSE 0
                   /\ Released(c)
                   /\ UNCHANGED until
              ELSE /\ tokens' = refilled
                   /\ until' = [until EXCEPT ![c] = now + WaitTime(refilled)]
                   /\ pc' = [pc EXCEPT ![c] = "token_wait"]
                   /\ UNCHANGED <<lockHolder, waiters, acquired>>
    /\ UNCHANGED now
    /\ UNCHANGED callVars

\* mutant: the lock is left before the sleep of line 33
RefillAndConsumeUnlockedWait(c) ==
    /\ pc[c] = "locked"
    /\ LET elapsed == now - last_update
           refilled == Refill(tokens, elapsed)
       IN  /\ last_update' = now
           /\ IF refilled >= TokenUnit
              THEN /\ tokens' = refilled - TokenUnit
                   /\ Released(c)
                   /\ UNCHANGED until
              ELSE /\ tokens' = refilled
                   /\ until' = [until EXCEPT ![c] = now + WaitTime(refilled)]
                   /\ IF waiters = <<>>
                      THEN /\ lockHolder' = NoCaller
                           /\ waiters' = waiters
                           /\ pc' = [pc EXCEPT ![c] = "token_wait"]
                      ELSE /\ lockHolder' = Head(waiters)
                           /\ waiters' = Tail(waiters)
                           /\ pc' = [pc EXCEPT ![c] = "token_wait",
                                               ![Head(waiters)] = "locked"]
                   /\ UNCHANGED acquired
    /\ UNCHANGED now
    /\ UNCHANGED callVars

\* lines 23-33: refill, then consume one token or start the wait
RefillAndConsume(c) ==
    /\ pc[c] = "locked"
    /\ LET elapsed == now - last_update
           refilled == Refill(tokens, elapsed)
       IN  /\ last_update' = now
           /\ IF refilled >= TokenUnit
              THEN /\ tokens' = refilled - TokenUnit
                   /\ Released(c)
                   /\ UNCHANGED until
              ELSE /\ tokens' = refilled
                   /\ until' = [until EXCEPT ![c] = now + WaitTime(refilled)]
                   /\ pc' = [pc EXCEPT ![c] = "token_wait"]
                   /\ UNCHANGED <<lockHolder, waiters, acquired>>
    /\ UNCHANGED now
    /\ UNCHANGED callVars

\* mutant: the sleep of line 33 is cut short
TokenWakeEarly(c) ==
    /\ pc[c] = "token_wait"
    /\ tokens' = 0
    /\ last_update' = now
    /\ Released(c)
    /\ until' = [until EXCEPT ![c] = 0]
    /\ UNCHANGED now
    /\ UNCHANGED callVars

\* mutant: the waiter takes its token from a refill over the time it slept
TokenWakeRefills(c) ==
    /\ pc[c] = "token_wait"
    /\ now >= until[c]
    /\ tokens' = Refill(tokens, now - last_update) - TokenUnit
    /\ last_update' = now
    /\ Released(c)
    /\ until' = [until EXCEPT ![c] = 0]
    /\ UNCHANGED now
    /\ UNCHANGED callVars

\* lines 33-35: the sleep is over; reset the bucket and leave the lock
TokenWake(c) ==
    /\ pc[c] = "token_wait"
    /\ now >= until[c]
    /\ tokens' = 0
    /\ last_update' = now
    /\ Released(c)
    /\ until' = [until EXCEPT ![c] = 0]
    /\ UNCHANGED now
    /\ UNCHANGED callVars

\* a task calls acquire() on the bucket directly
Acquire(c) ==
    /\ pc[c] \in {"idle", "acquired"}
    /\ pc' = [pc EXCEPT ![c] = "acquire"]
    /\ UNCHANGED <<now, until, acquired>>
    /\ UNCHANGED bucketVars
    /\ UNCHANGED callVars

\* ----------------------------------------------------- _request_with_retry
\* a logical call starts: last_exception = None, attempt = 0
Call(c) ==
    /\ pc[c] = "idle"
    /\ pc' = [pc EXCEPT ![c] = "acquire"]
    /\ attempt' = [attempt EXCEPT ![c] = 0]
    /\ last_exception' = [last_exception EXCEPT ![c] = "None"]
    /\ UNCHANGED <<now, until, result, requests, sleeps, acquired>>
    /\ UNCHANGED bucketVars

\* mutant: `continue` without the sleep
SleepBackoffSkipped(c, u) ==
    /\ until' = [until EXCEPT ![c] = now]
    /\ pc' = [pc EXCEPT ![c] = "backoff"]
    /\ UNCHANGED <<result, sleeps, attempt>>

\* `await asyncio.sleep(delay); continue`
SleepBackoff(c, u) ==
    /\ until' = [until EXCEPT ![c] =
                   now + CeilDiv(calculate_backoff_delay(attempt[c], u), MsPerTick)]
    /\ sleeps' = [sleeps EXCEPT ![c] = @ + 1]
    /\ pc' = [pc EXCEPT ![c] = "backoff"]
    /\ UNCHANGED <<result, attempt>>

\* mutant: the loop sleeps once more before the call ends
FinishAfterSleep(c, r) ==
    /\ result' = [result EXCEPT ![c] = r]
    /\ pc' = [pc EXCEPT ![c] = "done"]
    /\ attempt' = [attempt EXCEPT ![c] = 0]
    /\ last_exception' = [last_exception EXCEPT ![c] = "None"]
    /\ sleeps' = [sleeps EXCEPT ![c] = @ + 1]
    /\ UNCHANGED until

\* the logical call ends: `return response` or an exception leaves it,
\* and the locals of the call are gone
Finish(c, r) ==
    /\ result' = [result EXCEPT ![c] = r]
    /\ pc' = [pc EXCEPT ![c] = "done"]
    /\ attempt' = [attempt EXCEPT ![c] = 0]
    /\ last_exception' = [last_exception EXCEPT ![c] = "None"]
    /\ UNCHANGED <<until, sleeps>>

\* mutant: `attempt <= self.config.MAX_RETRIES` in a loop that goes on
AttemptsRemainOneMore(c) == attempt[c] <= MAX_RETRIES

\* mutant: `attempt < self.config.MAX_RETRIES - 1`
AttemptsRemainOneLess(c) == attempt[c] < MAX_RETRIES - 1

\* lines 88 and 97: `attempt < self.config.MAX_RETRIES`
AttemptsRemain(c) == attempt[c] < MAX_RETRIES

\* mutant: with the attempts used up, a fault kept in last_exception is
\* raised in place of returning the response
OnResponseRaisesEarlierFault(c, o, u) ==
    LET response == [kind |-> "response", status_code |-> o.status_code,
                     content_type |-> o.content_type, seq |-> requests[c] + 1]
    IN  IF IsHtml200(o)
        THEN Finish(c, [kind |-> "ValueError", seq |-> requests[c] + 1])
        ELSE IF NonRetryableStatus(o)
        THEN Finish(c, response)
        ELSE IF AttemptsRemain(c)
        THEN SleepBackoff(c, u) /\ UNCHANGED last_exception
        ELSE IF last_exception[c] # "None"
        THEN Finish(c, [kind |-> "raise", fault |-> last_exception[c],
                        seq |-> requests[c] + 1])
        ELSE Finish(c, response)

\* lines 75-93: the upstream answered with a response
OnResponse(c, o, u) ==
    LET response == [kind |-> "response", status_code |-> o.status_code,
                     content_type |-> o.content_type, seq |-> requests[c] + 1]
    IN  IF IsHtml200(o)
        THEN Finish(c, [kind |-> "ValueError", seq |-> requests[c] + 1])
        ELSE IF NonRetryableStatus(o)
        THEN Finish(c, response)
        ELSE IF AttemptsRemain(c)
        THEN SleepBackoff(c, u) /\ UNCHANGED last_exception
        ELSE Finish(c, response)

\* mutant: the fault is raised at once, whatever attempts remain
OnFaultNoRetry(c, o, u) ==
    Finish(c, [kind |-> "raise", fault |-> o.fault, seq |-> requests[c] + 1])

\* lines 95-101: the request raised TimeoutException or NetworkError
OnFault(c, o, u) ==
    IF AttemptsRemain(c)
    THEN /\ last_exception' = [last_exception EXCEPT ![c] = o.fault]
         /\ SleepBackoff(c, u)
    ELSE Finish(c, [kind |-> "raise", fault |-> o.fault,
                    seq |-> requests[c] + 1])

\* mutant: the request and the backoff sleep run inside the limiter's lock
RequestUnderLock(c, o, u) ==
    /\ pc[c] = "acquired"
    /\ requests' = [requests EXCEPT ![c] = @ + 1]
    /\ IF o.kind = "response" THEN OnResponse(c, o, u) ELSE OnFault(c, o, u)
    /\ lockHolder' = IF pc'[c] = "backoff" THEN c ELSE lockHolder
    /\ UNCHANGED <<now, acquired, tokens, last_update, waiters>>

\* lines 72-101: issue the HTTP request and act on what the upstream did
Request(c, o, u) ==
    /\ pc[c] = "acquired"
    /\ requests' = [requests EXCEPT ![c] = @ + 1]
    /\ IF o.kind = "response" THEN OnResponse(c, o, u) ELSE OnFault(c, o, u)
    /\ UNCHANGED <<now, acquired>>
    /\ UNCHANGED bucketVars

\* mutant: the retry goes to the HTTP request without acquire()
BackoffWakeSkipsAcquire(c) ==
    /\ pc[c] = "backoff"
    /\ now >= until[c]
    /\ attempt' = [attempt EXCEPT ![c] = @ + 1]
    /\ pc' = [pc EXCEPT ![c] = "acquired"]
    /\ until' = [until EXCEPT ![c] = 0]
    /\ UNCHANGED <<now, last_exception, result, requests, sleeps, acquired>>
    /\ UNCHANGED bucketVars

\* the backoff sleep is over: next iteration of the for loop
BackoffWake(c) ==
    /\ pc[c] = "backoff"
    /\ now >= until[c]
    /\ attempt' = [attempt EXCEPT ![c] = @ + 1]
    /\ pc' = [pc EXCEPT ![c] = "acquire"]
    /\ until' = [until EXCEPT ![c] = 0]
    /\ UNCHANGED <<now, last_exception, result, requests, sleeps, acquired>>
    /\ UNCHANGED bucketVars

\* ------------------------------------------------------------------ clock
\* time.time() moves on
Tick ==
    /\ now < MaxTime
    /\ now' = now + 1
    /\ UNCHANGED <<pc, until, acquired>>
    /\ UNCHANGED bucketVars
    /\ UNCHANGED callVars

\* --------------------------------------------------------------- observer
\* what an outside observer of the bucket records about a step of task c
Observe(c) ==
    /\ acq' = [acq EXCEPT ![c] =
         CASE pc[c] = "locked" /\ pc'[c] = "acquired" ->
                [how |-> "consumed", refilled |-> Refill(tokens, now - last_update),
                 start |-> now, after |-> tokens', slept |-> 0,
                 updated |-> last_update']
           [] pc[c] = "locked" /\ pc'[c] = "token_wait" ->
                [how |-> "waiting", refilled |-> tokens', start |-> now,
                 after |-> tokens', slept |-> 0, updated |-> last_update']
           [] pc[c] = "token_wait" /\ pc'[c] = "acquired" ->
                [how |-> "waited", refilled |-> @.refilled, start |-> @.start,
                 after |-> tokens', slept |-> now - @.start,
                 updated |-> last_update']
           [] pc'[c] = "acquire" -> NoAcq
           [] OTHER -> @]
    /\ returnsAt' = IF acquired'[c] > acquired[c]
                    THEN [returnsAt EXCEPT ![now] = @ + 1]
                    ELSE returnsAt
    /\ fastNow' = IF acquired'[c] > acquired[c] /\ pc[c] = "locked"
                  THEN fastNow + 1
                  ELSE fastNow
    /\ UNCHANGED availAtTick

ObserveTick ==
    /\ fastNow' = 0
    /\ availAtTick' = Refill(tokens, now' - last_update)
    /\ UNCHANGED <<acq, returnsAt>>

\* the outcomes that are a 429 / >=500 response, as the upstream sees them
RetryableStatus(o) ==
    o.kind = "response" /\ (o.status_code = 429 \/ o.status_code >= 500)

\* what the upstream records about the request it served for task c
ObserveRequest(c, o) ==
    /\ lastReq' = [caller |-> c, outcome |-> o]
    /\ retryableSeen' = [retryableSeen EXCEPT ![c] =
          IF o.kind = "fault" \/ RetryableStatus(o) THEN @ + 1 ELSE @]
    /\ onlyStatus' = [onlyStatus EXCEPT ![c] = @ /\ RetryableStatus(o)]

\* the step made no HTTP request; the tallies of finished calls are dropped
ObserveNoRequest ==
    /\ lastReq' = NoReq
    /\ retryableSeen' = [c \in Callers |->
                           IF pc[c] = "done" THEN 0 ELSE retryableSeen[c]]
    /\ onlyStatus' = [c \in Callers |->
                        IF pc[c] = "done" THEN TRUE ELSE onlyStatus[c]]

\* ------------------------------------------------ the adapter under load
\* NumCallers concurrent logical calls of _request_with_retry
Next ==
    \/ \E c \in Callers : Call(c) /\ ObserveNoRequest /\ UNCHANGED histVars
       /\ UNCHANGED harnessVars
    \/ \E c \in Callers : TryLock(c) /\ ObserveNoRequest /\ UNCHANGED histVars
       /\ UNCHANGED harnessVars
    \/ \E c \in Callers :
          RefillAndConsume(c) /\ ObserveNoRequest /\ UNCHANGED histVars
       /\ UNCHANGED harnessVars
    \/ \E c \in Callers : TokenWake(c) /\ ObserveNoRequest /\ UNCHANGED histVars
       /\ UNCHANGED harnessVars
    \/ \E c \in Callers : \E o \in Outcomes : \E u \in 0..JitterSteps :
          Request(c, o, u) /\ ObserveRequest(c, o) /\ UNCHANGED histVars
       /\ UNCHANGED harnessVars
    \/ \E c \in Callers : BackoffWake(c) /\ ObserveNoRequest /\ UNCHANGED histVars
       /\ UNCHANGED harnessVars
    \/ Tick /\ ObserveNoRequest /\ UNCHANGED histVars
       /\ UNCHANGED harnessVars

Spec == Init /\ [][Next]_vars

\* ------------------------------------------------- the bucket on its own
\* NumCallers tasks calling acquire() again and again, watched by the observer
NextBucket ==
    \/ \E c \in Callers : Acquire(c) /\ Observe(c) /\ UNCHANGED upstreamVars
       /\ UNCHANGED harnessVars
    \/ \E c \in Callers : TryLock(c) /\ Observe(c) /\ UNCHANGED upstreamVars
       /\ UNCHANGED harnessVars
    \/ \E c \in Callers :
          RefillAndConsume(c) /\ Observe(c) /\ UNCHANGED upstreamVars
       /\ UNCHANGED harnessVars
    \/ \E c \in Callers : TokenWake(c) /\ Observe(c) /\ UNCHANGED upstreamVars
       /\ UNCHANGED harnessVars
    \/ Tick /\ ObserveTick /\ UNCHANGED upstreamVars
       /\ UNCHANGED harnessVars

SpecBucket == Init /\ [][NextBucket]_vars

\* ------------------------------------ the bucket under a stepping clock
MaxAcquires == 3         \* acquire() calls made by one task

\* time.time() is the wall clock: it is set back by a second between two
\* reads.  asyncio.sleep runs on the loop's monotonic clock, so what is left
\* of every sleep stays the same and its deadline moves with the wall clock
ClockBack ==
    /\ now > 0
    /\ now' = now - 1
    /\ until' = [c \in Callers |-> IF until[c] > 0 THEN until[c] - 1 ELSE 0]
    /\ UNCHANGED <<pc, acquired>>
    /\ UNCHANGED bucketVars
    /\ UNCHANGED callVars

\* tasks call acquire() while the wall clock moves on and steps back
NextSkew ==
    \/ \E c \in Callers :
          /\ acquired[c] < MaxAcquires
          /\ Acquire(c)
          /\ UNCHANGED <<histVars, upstreamVars, harnessVars>>
    \/ \E c \in Callers :
          TryLock(c) /\ UNCHANGED <<histVars, upstreamVars, harnessVars>>
    \/ \E c \in Callers :
          RefillAndConsume(c) /\ UNCHANGED <<histVars, upstreamVars, harnessVars>>
    \/ \E c \in Callers :
          TokenWake(c) /\ UNCHANGED <<histVars, upstreamVars, harnessVars>>
    \/ Tick /\ UNCHANGED <<histVars, upstreamVars, harnessVars>>
    \/ ClockBack /\ UNCHANGED <<histVars, upstreamVars, harnessVars>>

SpecSkew == Init /\ [][NextSkew]_vars

\* ------------------------------------- the adapter on a running event loop
\* time.time() moves on past MaxTime: the origin of the clock is moved forward
\* by one second instead, so that every instant the program holds (deadlines
\* of sleeps, last_update) is one second nearer to now or already past
ClockWraps ==
    /\ now = MaxTime
    /\ last_update' = IF last_update > 0 THEN last_update - 1 ELSE 0
    /\ until' = [c \in Callers |-> IF until[c] > 0 THEN until[c] - 1 ELSE 0]
    /\ UNCHANGED <<now, tokens, lockHolder, waiters, pc, acquired>>
    /\ UNCHANGED callVars

\* mutant: the loop starts over after a backoff instead of moving on
BackoffWakeStartsOver(c) ==
    /\ pc[c] = "backoff"
    /\ now >= until[c]
    /\ attempt' = [attempt EXCEPT ![c] = 0]
    /\ pc' = [pc EXCEPT ![c] = "acquire"]
    /\ until' = [until EXCEPT ![c] = 0]
    /\ UNCHANGED <<now, last_exception, result, requests, sleeps, acquired>>
    /\ UNCHANGED bucketVars

\* the next iteration of the for loop of task c
NextAttempt(c) == BackoffWake(c)

\* one outcome of each kind the loop tells apart: returned, rejected as
\* HTML, retried as a status, retried as a fault
LiveOutcomes ==
    {Response(200, Json), Response(200, Html), Response(500, Json),
     [kind |-> "fault", fault |-> "TimeoutException"]}

\* one step of the task running the logical call c
TaskStep(c) ==
    \/ Call(c) /\ UNCHANGED <<histVars, upstreamVars, harnessVars>>
    \/ TryLock(c) /\ UNCHANGED <<histVars, upstreamVars, harnessVars>>
    \/ RefillAndConsume(c) /\ UNCHANGED <<histVars, upstreamVars, harnessVars>>
    \/ TokenWake(c) /\ UNCHANGED <<histVars, upstreamVars, harnessVars>>
    \/ \E o \in LiveOutcomes : \E u \in 0..JitterSteps :
          Request(c, o, u) /\ UNCHANGED <<histVars, upstreamVars, harnessVars>>
    \/ NextAttempt(c) /\ UNCHANGED <<histVars, upstreamVars, harnessVars>>

ClockStep ==
    \/ Tick /\ UNCHANGED <<histVars, upstreamVars, harnessVars>>
    \/ ClockWraps /\ UNCHANGED <<histVars, upstreamVars, harnessVars>>

\* two tasks run logical calls, one of them waiting for the lock of the
\* limiter while the other holds it; the other tasks stay idle
LiveCallers == {c \in Callers : c <= 2}

NextLive ==
    \/ \E c \in LiveCallers : TaskStep(c)
    \/ ClockStep

\* the event loop runs every task that is ready, every acquire() and HTTP
\* request completes, and time passes
SpecLive ==
    /\ Init /\ [][NextLive]_vars
    /\ \A c \in LiveCallers : WF_vars(TaskStep(c))
    /\ WF_vars(ClockStep)

\* -------------------------------------- the bucket on a running event loop
\* one step of a task that calls acquire() MaxAcquires times
BucketTaskStep(c) ==
    \/ /\ acquired[c] < MaxAcquires
       /\ Acquire(c)
       /\ UNCHANGED <<histVars, upstreamVars, harnessVars>>
    \/ TryLock(c) /\ UNCHANGED <<histVars, upstreamVars, harnessVars>>
    \/ RefillAndConsume(c) /\ UNCHANGED <<histVars, upstreamVars, harnessVars>>
    \/ TokenWake(c) /\ UNCHANGED <<histVars, upstreamVars, harnessVars>>

NextBucketLive ==
    \/ \E c \in Callers : BucketTaskStep(c)
    \/ ClockStep

\* the event loop runs every task that is ready and time passes; the lock
\* goes to its waiters in the order they came (Released)
SpecBucketLive ==
    /\ Init /\ [][NextBucketLive]_vars
    /\ \A c \in Callers : WF_vars(BucketTaskStep(c))
    /\ WF_vars(ClockStep)

\* ------------------------------------------- the backoff delay on its own
MaxBackoffAttempt == 5         \* delays are computed for attempts 0..5
BackoffBases == {100, 1000}    \* BACKOFF_BASE_SECONDS of 0.1 and 1.0
BackoffMaxes == {50, 1500, 30000}  \* BACKOFF_MAX_SECONDS of 0.05, 1.5, 30.0

\* a provider built from any of the configurations
InitBackoff ==
    /\ AdapterInit
    /\ config \in [base : BackoffBases, max : BackoffMaxes, jitter : BOOLEAN]
    /\ bo_attempt = NoDelay
    /\ bo_delay = NoDelay
    /\ bo_prev = NoDelay
    /\ MapperIdle

\* the retry loop asks for the delay of its next attempt; u is the draw of
\* random.uniform
ComputeDelay(u) ==
    /\ bo_attempt < MaxBackoffAttempt
    /\ bo_attempt' = bo_attempt + 1
    /\ bo_delay' = backoff_delay(config.base, config.max, config.jitter,
                                 bo_attempt + 1, u)
    /\ bo_prev' = bo_delay
    /\ UNCHANGED config

NextBackoff ==
    \E u \in 0..JitterSteps :
        ComputeDelay(u) /\ UNCHANGED adapterVars
        /\ UNCHANGED <<mapperVars, proxyVars, fetchVars>>

SpecBackoff == InitBackoff /\ [][NextBackoff]_vars

\* --------------------------------------- the DecisionMapper called directly
\* names submitted as operationType: the registered ones and others
OperationNames ==
    DOMAIN operations \cup {"getTeam", "listleagues", "DeleteLeague", ""}

Fields == {"leagueId", "teamId", "matchId"}

\* a field that is present holds null, the empty string or an identifier
FieldValues == {JNull, JStr(""), JStr("bl1")}

\* every payload over the three fields, each present or not
Payloads == UNION {[D -> FieldValues] : D \in SUBSET Fields}

\* results of every shape: no list, no map, empty and non-empty ones
RawShapes ==
    {JNull, JStr("abc"), JNum(3),
     EmptyMap, JMap([id |-> JStr("t1"), name |-> JStr("Team 1")]),
     EmptyList, JList(<<JMap([id |-> JStr("1")])>>),
     JList(<<JMap([id |-> JStr("1")]), JNum(2)>>)}

InitMapper ==
    /\ AdapterInit
    /\ BackoffIdle
    /\ operation_type \in OperationNames
    /\ payload \in Payloads
    /\ raw \in RawShapes
    /\ mapped = NoCall
    /\ hpc = "off"
    /\ league_idx = 0
    /\ fetched = <<>>
    /\ reply = NoReply
    /\ self_operations = operations
    /\ FetchIdle

\* mapper.get_operation(operation_type)
CallGetOperation ==
    /\ mapped' = [fn |-> "get_operation", out |-> get_operation(operation_type)]
    /\ UNCHANGED <<self_operations, operation_type, payload, raw>>

\* mapper._validate_*(payload)
CallValidate(o) ==
    /\ mapped' = [fn |-> "validate", op |-> o,
                  out |-> validate(operations[o].validate, payload)]
    /\ UNCHANGED <<self_operations, operation_type, payload, raw>>

\* mapper._normalize_*(data)
CallNormalize(o) ==
    /\ mapped' = [fn |-> "normalize", op |-> o,
                  out |-> normalize(operations[o].normalize, raw)]
    /\ UNCHANGED <<self_operations, operation_type, payload, raw>>

NextMapper ==
    \/ CallGetOperation /\ UNCHANGED adapterVars /\ UNCHANGED <<backoffVars, proxyVars, fetchVars>>
    \/ \E o \in DOMAIN operations :
          CallValidate(o) /\ UNCHANGED adapterVars /\ UNCHANGED <<backoffVars, proxyVars, fetchVars>>
    \/ \E o \in DOMAIN operations :
          CallNormalize(o) /\ UNCHANGED adapterVars /\ UNCHANGED <<backoffVars, proxyVars, fetchVars>>

SpecMapper == InitMapper /\ [][NextMapper]_vars

\* --------------------------------------------- the endpoint /proxy/execute
Team(id, name) == JMap([teamId |-> JNum(id), teamName |-> JStr(name)])
Match(id, team1, team2) ==
    JMap([matchID |-> JNum(id), team1 |-> team1, team2 |-> team2])

MatchesA ==
    JList(<<Match(1, Team(3, "a1"), Team(7, "a2")),
            Match(2, Team(7, "a3"), Team(5, "a4"))>>)
MatchesB ==
    JList(<<Match(3, Team(7, "b1"), Team(7, "b2")),
            Match(1, Team(5, "b3"), Team(3, "b4"))>>)

Answer(status, ct, body) ==
    [kind |-> "response", status_code |-> status, content_type |-> ct,
     body |-> body]

\* the last answer of the upstream to a call of _request_with_retry: arrays
\* of matches, other JSON, HTML pages, empty and unparsable bodies, error
\* statuses, faults
Answers ==
    {Answer(200, Json, Body("[A]", MatchesA)),
     Answer(200, Json, Body("[B]", MatchesB)),
     Answer(200, Json, Body("[]", EmptyList)),
     Answer(200, Json, Body("{}", JMap([message |-> JStr("moved")]))),
     Answer(200, Html, Body("<html><h1>404 Not Found</h1></html>", NotJson)),
     Answer(200, Html, Body("<html>maintenance</html>", NotJson)),
     Answer(200, Json, Body("", NotJson)),
     Answer(200, NoContentType, Body("Not Found", NotJson)),
     Answer(404, Html, Body("<html><h1>404 Not Found</h1></html>", NotJson)),
     Answer(500, Json, Body("oops", NotJson))}
    \cup [kind : {"fault"}, fault : Faults]

\* payloads of requests to the endpoint
ProxyPayloads ==
    {<<>>,
     [leagueId |-> JStr("bl1")], [leagueId |-> JStr("")],
     [leagueId |-> JNull], [leagueId |-> JStr("not found")],
     [teamId |-> JStr("7")], [teamId |-> JStr("5")], [teamId |-> JStr("9")],
     [teamId |-> JStr("")],
     [matchId |-> JStr("1")], [matchId |-> JStr("2")], [matchId |-> JStr("9")],
     [matchId |-> JNull],
     [leagueId |-> JStr("bl1"), teamId |-> JStr("7"), matchId |-> JStr("1")]}

\* a request arrives at a started service
InitProxy ==
    /\ AdapterInit
    /\ BackoffIdle
    /\ operation_type \in OperationNames
    /\ payload \in ProxyPayloads
    /\ raw = JNull
    /\ mapped = NoCall
    /\ hpc = "received"
    /\ league_idx = 0
    /\ fetched = <<>>
    /\ reply = NoReply
    /\ self_operations = operations
    /\ FetchIdle

\* the handlers of the request being served
Operation == self_operations[operation_type]

\* payload[field] as execute reads it
Arg(field) == IF field \in DOMAIN payload THEN payload[field] ELSE JNull

\* what the observer keeps of a call of _request_with_retry and its parsing
Fetched(league, r) ==
    IF r.raised THEN [league |-> league, ok |-> FALSE, value |-> JNull]
    ELSE [league |-> league, ok |-> TRUE, value |-> r.value]

\* execute is over: lines 105-191
Respond(r) ==
    /\ raw' = r
    /\ reply' = reply_of(Operation.normalize, r)
    /\ hpc' = "responded"

\* mutant: execute is awaited whatever validate returned
DispatchUnvalidated ==
    /\ hpc = "received"
    /\ LET op == get_operation(operation_type)
       IN  IF op.raised
           THEN /\ reply' = HTTPException(400, [error |-> Msg(op.message, {})])
                /\ hpc' = "responded"
                /\ UNCHANGED league_idx
           ELSE /\ hpc' = "executing"
                /\ league_idx' = 1
                /\ UNCHANGED reply
    /\ UNCHANGED <<self_operations, operation_type, payload, raw, mapped, fetched>>

\* lines 52-101: look the operation up and validate the payload
Dispatch ==
    /\ hpc = "received"
    /\ LET op == get_operation(operation_type)
       IN  IF op.raised
           THEN /\ reply' = HTTPException(400, [error |-> Msg(op.message, {})])
                /\ hpc' = "responded"
                /\ UNCHANGED league_idx
           ELSE LET v == validate(op.operation.validate, payload)
                IN  IF ~v.is_valid
                    THEN /\ reply' = HTTPException(400,
                                        [error |-> Msg("Validation failed", {}),
                                         details |-> v.details])
                         /\ hpc' = "responded"
                         /\ UNCHANGED league_idx
                    ELSE /\ hpc' = "executing"
                         /\ league_idx' = 1
                         /\ UNCHANGED reply
    /\ UNCHANGED <<self_operations, operation_type, payload, raw, mapped, fetched>>

\* _execute_list_leagues, with the last answer o of the upstream
ExecListLeagues(o) ==
    /\ hpc = "executing"
    /\ Operation.execute = "_execute_list_leagues"
    /\ LET r == list_leagues(o)
       IN  /\ fetched' = Append(fetched, Fetched("", r))
           /\ Respond(r)
    /\ UNCHANGED <<self_operations, operation_type, payload, mapped, league_idx>>

\* _execute_get_league_matches
ExecGetLeagueMatches(o) ==
    /\ hpc = "executing"
    /\ Operation.execute = "_execute_get_league_matches"
    /\ LET league_id == PyStr(Arg("leagueId"))
           r == get_league_matches(league_id, o)
       IN  /\ fetched' = Append(fetched, Fetched(league_id, r))
           /\ Respond(r)
    /\ UNCHANGED <<self_operations, operation_type, payload, mapped, league_idx>>

\* mutant: no try/except around the fetch, its failure leaves get_team
ExecGetTeamFailFast(o) ==
    /\ hpc = "executing"
    /\ Operation.execute = "_execute_get_team"
    /\ LET league_id == common_leagues[league_idx]
           r == get_league_matches(league_id, o)
           found == scan_league(r, Arg("teamId"))
       IN  /\ fetched' = Append(fetched, Fetched(league_id, r))
           /\ IF r.raised
              THEN Respond(r) /\ UNCHANGED league_idx
              ELSE IF found.hit = "found"
              THEN Respond(Return(found.value)) /\ UNCHANGED league_idx
              ELSE IF league_idx = Len(common_leagues)
              THEN Respond(TeamNotFound(Arg("teamId"))) /\ UNCHANGED league_idx
              ELSE /\ league_idx' = league_idx + 1
                   /\ UNCHANGED <<raw, reply, hpc>>
    /\ UNCHANGED <<self_operations, operation_type, payload, mapped>>

\* _execute_get_team: one iteration of the loop of get_team, lines 150-164
ExecGetTeam(o) ==
    /\ hpc = "executing"
    /\ Operation.execute = "_execute_get_team"
    /\ LET league_id == common_leagues[league_idx]
           r == get_league_matches(league_id, o)
           found == scan_league(r, Arg("teamId"))
       IN  /\ fetched' = Append(fetched, Fetched(league_id, r))
           /\ IF found.hit = "found"
              THEN Respond(Return(found.value)) /\ UNCHANGED league_idx
              ELSE IF league_idx = Len(common_leagues)
              THEN Respond(TeamNotFound(Arg("teamId"))) /\ UNCHANGED league_idx
              ELSE /\ league_idx' = league_idx + 1
                   /\ UNCHANGED <<raw, reply, hpc>>
    /\ UNCHANGED <<self_operations, operation_type, payload, mapped>>

\* _execute_get_match
ExecGetMatch(o) ==
    /\ hpc = "executing"
    /\ Operation.execute = "_execute_get_match"
    /\ LET r == get_league_matches(match_leagues[1], o)
       IN  /\ fetched' = Append(fetched, Fetched(match_leagues[1], r))
           /\ Respond(get_match(Arg("matchId"), o))
    /\ UNCHANGED <<self_operations, operation_type, payload, mapped, league_idx>>

NextProxy ==
    \/ Dispatch /\ UNCHANGED adapterVars /\ UNCHANGED <<backoffVars, fetchVars>>
    \/ \E o \in Answers :
          ExecListLeagues(o) /\ UNCHANGED adapterVars /\ UNCHANGED <<backoffVars, fetchVars>>
    \/ \E o \in Answers :
          ExecGetLeagueMatches(o) /\ UNCHANGED adapterVars
          /\ UNCHANGED <<backoffVars, fetchVars>>
    \/ \E o \in Answers :
          ExecGetTeam(o) /\ UNCHANGED adapterVars /\ UNCHANGED <<backoffVars, fetchVars>>
    \/ \E o \in Answers :
          ExecGetMatch(o) /\ UNCHANGED adapterVars /\ UNCHANGED <<backoffVars, fetchVars>>

SpecProxy == InitProxy /\ [][NextProxy]_vars

\* ------------------- ListLeagues and GetLeagueMatches through the adapter
\* the upstream's answers to one HTTP request for a league list or a match
\* list: a JSON array, an HTML page, a blank body, a body that is no JSON,
\* error statuses over an empty, a blank and a well-formed body, a fault
FetchAnswers ==
    {Answer(200, Json, Body("[A]", MatchesA)),
     Answer(200, Html, Body("<html>maintenance</html>", NotJson)),
     Answer(200, Json, Body("  ", NotJson)),
     Answer(200, NoContentType, Body("oops", NotJson)),
     Answer(404, Json, Body("", NotJson)),
     Answer(429, Html, Body("  ", NotJson)),
     Answer(500, Json, Body("[A]", MatchesA)),
     [kind |-> "fault", fault |-> "TimeoutException"]}

\* the requests that arrive: the two operations, a payload without its
\* required field, an operation that is not registered
FetchRequests ==
    {[operationType |-> "ListLeagues", payload |-> <<>>],
     [operationType |-> "GetLeagueMatches",
      payload |-> [leagueId |-> JStr("bl1")]],
     [operationType |-> "GetLeagueMatches", payload |-> <<>>],
     [operationType |-> "DeleteLeague", payload |-> <<>>]}

\* the path list_leagues / get_league_matches asks the upstream for
FetchUrl(name, p) ==
    IF name = "ListLeagues" THEN "/getavailableleagues"
    ELSE "/getmatchdata/" \o PyStr(p["leagueId"])

\* how _request_with_retry classes an answer
AnswerKind(o) ==
    IF o.kind = "fault" THEN "fault"
    ELSE IF IsHtml200(o) THEN "html"
    ELSE IF NonRetryableStatus(o) THEN "plain"
    ELSE "status"

\* a service started with the registry and the configuration of its
\* construction; no request has arrived
InitFetch ==
    /\ AdapterInit
    /\ config = [base |-> BACKOFF_BASE_MS, max |-> BACKOFF_MAX_MS,
                 jitter |-> JITTER_ENABLED]
    /\ bo_attempt = NoDelay
    /\ bo_delay = NoDelay
    /\ bo_prev = NoDelay
    /\ MapperIdle

\* what a task serving such a request leaves alone
fetchFrame ==
    <<histVars, upstreamVars, bo_attempt, bo_delay, bo_prev, operation_type,
      payload, raw, mapped, proxyVars>>

\* the request is answered 400 before execute
Refuse(c, name, p, detail) ==
    /\ serving' = [serving EXCEPT ![c] =
                     [operation_type |-> name, payload |-> p, answer |-> NoAnswer,
                      raw |-> JNull, reply |-> HTTPException(400, detail)]]
    /\ UNCHANGED <<now, pc, until, acquired, bucketVars, callVars>>

\* mutant: get_operation takes the entry out of the registry
ServePopsEntry(c, name, p) ==
    /\ pc[c] = "idle"
    /\ serving[c] = NoServing
    /\ LET op == get_operation(name)
       IN  IF op.raised
           THEN Refuse(c, name, p, [error |-> Msg(op.message, {})])
           ELSE LET v == validate(op.operation.validate, p)
                IN  IF ~v.is_valid
                    THEN Refuse(c, name, p,
                                [error |-> Msg("Validation failed", {}),
                                 details |-> v.details])
                    ELSE /\ Call(c)
                         /\ serving' = [serving EXCEPT ![c] =
                               [operation_type |-> name, payload |-> p,
                                answer |-> NoAnswer, raw |-> JNull,
                                reply |-> NoReply]]
    /\ self_operations' =
          [o \in DOMAIN self_operations \ {name} |-> self_operations[o]]
    /\ UNCHANGED <<trail, config>>

\* main.py lines 52-105: task c takes a request in, looks its operation up,
\* validates the payload and calls execute, which starts the logical call
Serve(c, name, p) ==
    /\ pc[c] = "idle"
    /\ serving[c] = NoServing
    /\ LET op == get_operation(name)
       IN  IF op.raised
           THEN Refuse(c, name, p, [error |-> Msg(op.message, {})])
           ELSE LET v == validate(op.operation.validate, p)
                IN  IF ~v.is_valid
                    THEN Refuse(c, name, p,
                                [error |-> Msg("Validation failed", {}),
                                 details |-> v.details])
                    ELSE /\ Call(c)
                         /\ serving' = [serving EXCEPT ![c] =
                               [operation_type |-> name, payload |-> p,
                                answer |-> NoAnswer, raw |-> JNull,
                                reply |-> NoReply]]
    /\ UNCHANGED <<trail, self_operations, config>>

\* what the request of task c has come to once the upstream gave answer o:
\* when the logical call is over, list_leagues / get_league_matches go on
\* in the same step and execute_proxy makes the reply
Served(c, o) ==
    LET s == serving[c]
        r == received(FetchUrl(s.operation_type, s.payload), result'[c], o)
    IN  IF pc'[c] = "done"
        THEN [s EXCEPT !.answer = o, !.raw = r,
                       !.reply = reply_of(
                          self_operations[s.operation_type].normalize, r)]
        ELSE [s EXCEPT !.answer = o]

\* mutant: a blank body is taken for a failure of the upstream and retried
FetchRequestRetriesBlank(c, o, u) ==
    /\ IF o.kind = "response" /\ IsBlank(o.body.text)
       THEN Request(c, [o EXCEPT !.status_code = 500], u)
       ELSE Request(c, o, u)
    /\ trail' = [trail EXCEPT ![c] = Append(@, AnswerKind(o))]
    /\ serving' = [serving EXCEPT ![c] = Served(c, o)]
    /\ UNCHANGED <<self_operations, config>>

\* one HTTP request of the logical call behind the request of task c
FetchRequest(c, o, u) ==
    /\ Request(c, o, u)
    /\ trail' = [trail EXCEPT ![c] = Append(@, AnswerKind(o))]
    /\ serving' = [serving EXCEPT ![c] = Served(c, o)]
    /\ UNCHANGED <<self_operations, config>>

\* a step inside acquire(), or the end of a backoff sleep
FetchInner(A) ==
    /\ A
    /\ UNCHANGED <<fetchVars, self_operations, config>>

NextFetch ==
    \/ \E c \in LiveCallers : \E rq \in FetchRequests :
          Serve(c, rq.operationType, rq.payload) /\ UNCHANGED fetchFrame
    \/ \E c \in LiveCallers : FetchInner(TryLock(c)) /\ UNCHANGED fetchFrame
    \/ \E c \in LiveCallers :
          FetchInner(RefillAndConsume(c)) /\ UNCHANGED fetchFrame
    \/ \E c \in LiveCallers : FetchInner(TokenWake(c)) /\ UNCHANGED fetchFrame
    \/ \E c \in LiveCallers : \E o \in FetchAnswers : \E u \in 0..JitterSteps :
          FetchRequest(c, o, u) /\ UNCHANGED fetchFrame
    \/ \E c \in LiveCallers : FetchInner(BackoffWake(c)) /\ UNCHANGED fetchFrame
    \/ FetchInner(Tick) /\ UNCHANGED fetchFrame

SpecFetch == InitFetch /\ [][NextFetch]_vars

\* ------------------------------------------- get_team through the adapter
\* the upstream's answers to one HTTP request for a league's matches: a
\* list with teams 3, 5 and 7, an empty list, a 500, a fault
TeamAnswers ==
    {Answer(200, Json, Body("[A]", MatchesA)),
     Answer(200, Json, Body("[]", EmptyList)),
     Answer(500, Json, Body("oops", NotJson)),
     [kind |-> "fault", fault |-> "TimeoutException"]}

\* one task runs get_team
TeamTasks == {c \in Callers : c <= 1}

\* execute of a validated GetTeam request is about to call get_team, for a
\* team that plays in the leagues or for one that does not
InitTeam ==
    /\ AdapterInit
    /\ BackoffIdle
    /\ operation_type = "GetTeam"
    /\ payload \in {[teamId |-> JStr("7")], [teamId |-> JStr("9")]}
    /\ raw = JNull
    /\ mapped = NoCall
    /\ hpc = "executing"
    /\ league_idx = 1
    /\ fetched = <<>>
    /\ reply = NoReply
    /\ self_operations = operations
    /\ FetchIdle

\* what get_team leaves alone
teamFrame ==
    <<histVars, upstreamVars, backoffVars, operation_type, payload, mapped,
      self_operations, fetchVars>>

\* line 152: get_league_matches(league_id) starts its logical call
TeamFetch(c) ==
    /\ hpc = "executing"
    /\ pc[c] \in {"idle", "done"}
    /\ pc' = [pc EXCEPT ![c] = "acquire"]
    /\ attempt' = [attempt EXCEPT ![c] = 0]
    /\ last_exception' = [last_exception EXCEPT ![c] = "None"]
    /\ UNCHANGED <<now, until, result, requests, sleeps, acquired>>
    /\ UNCHANGED bucketVars
    /\ UNCHANGED proxyVars
    /\ UNCHANGED raw

\* mutant: the loop has no return, the scan goes on after a hit and the
\* hit of the last league that has one is returned
TeamRequestScansOn(c, o, u) ==
    /\ hpc = "executing"
    /\ Request(c, o, u)
    /\ IF pc'[c] = "done"
       THEN LET league_id == common_leagues[league_idx]
                r == received("/getmatchdata/" \o league_id, result'[c], o)
                found == scan_league(r, Arg("teamId"))
            IN  /\ fetched' = Append(fetched, Fetched(league_id, r))
                /\ IF league_idx < Len(common_leagues)
                   THEN /\ league_idx' = league_idx + 1
                        /\ raw' = IF found.hit = "found"
                                  THEN Return(found.value) ELSE raw
                        /\ UNCHANGED <<reply, hpc>>
                   ELSE IF found.hit = "found"
                   THEN Respond(Return(found.value)) /\ UNCHANGED league_idx
                   ELSE Respond(TeamNotFound(Arg("teamId")))
                        /\ UNCHANGED league_idx
       ELSE UNCHANGED <<fetched, league_idx, raw, reply, hpc>>

\* one HTTP request of the fetch of the current league; when it ends the
\* logical call, lines 152-164 go on in the same step: the matches are
\* scanned, a failure is swallowed, and get_team returns the hit, moves to
\* the next league or raises not-found
TeamRequest(c, o, u) ==
    /\ hpc = "executing"
    /\ Request(c, o, u)
    /\ IF pc'[c] = "done"
       THEN LET league_id == common_leagues[league_idx]
                r == received("/getmatchdata/" \o league_id, result'[c], o)
                found == scan_league(r, Arg("teamId"))
            IN  /\ fetched' = Append(fetched, Fetched(league_id, r))
                /\ IF found.hit = "found"
                   THEN Respond(Return(found.value)) /\ UNCHANGED league_idx
                   ELSE IF league_idx = Len(common_leagues)
                   THEN Respond(TeamNotFound(Arg("teamId")))
                        /\ UNCHANGED league_idx
                   ELSE /\ league_idx' = league_idx + 1
                        /\ UNCHANGED <<raw, reply, hpc>>
       ELSE UNCHANGED <<fetched, league_idx, raw, reply, hpc>>

\* a step inside acquire(), the end of a backoff sleep, or the clock
TeamInner(A) ==
    /\ A
    /\ UNCHANGED proxyVars
    /\ UNCHANGED raw

NextTeam ==
    \/ \E c \in TeamTasks : TeamFetch(c) /\ UNCHANGED teamFrame
    \/ \E c \in TeamTasks : TeamInner(TryLock(c)) /\ UNCHANGED teamFrame
    \/ \E c \in TeamTasks :
          TeamInner(RefillAndConsume(c)) /\ UNCHANGED teamFrame
    \/ \E c \in TeamTasks : TeamInner(TokenWake(c)) /\ UNCHANGED teamFrame
    \/ \E c \in TeamTasks : \E o \in TeamAnswers : \E u \in 0..JitterSteps :
          TeamRequest(c, o, u) /\ UNCHANGED teamFrame
    \/ \E c \in TeamTasks : TeamInner(BackoffWake(c)) /\ UNCHANGED teamFrame
    \/ TeamInner(Tick) /\ UNCHANGED teamFrame
    \/ TeamInner(ClockWraps) /\ UNCHANGED teamFrame

SpecTeam == InitTeam /\ [][NextTeam]_vars

TypeOK ==
    /\ now \in 0..MaxTime
    /\ tokens \in 0..Capacity
    /\ last_update \in 0..MaxTime
    /\ lockHolder \in Callers \cup {NoCaller}
    /\ pc \in [Callers -> {"idle", "acquire", "lock_wait", "locked",
                           "token_wait", "acquired", "backoff", "done"}]
    /\ attempt \in [Callers -> 0..MAX_RETRIES]

\* ================================================================ claims
RECURSIVE ReturnsIn(_, _)
\* acquire() calls that returned at the instants a..b
ReturnsIn(a, b) == IF a > b THEN 0 ELSE returnsAt[a] + ReturnsIn(a + 1, b)

\* C1: in every reachable state of the bucket, whatever tasks call acquire()
\* and however their calls interleave, 0 <= tokens <= capacity, also while a
\* task is suspended in the token wait (the clock never runs backwards here)
C1_TokensWithinCapacity == 0 <= tokens /\ tokens <= Capacity

\* a task is suspended in the wait while the bucket holds a fraction of a
\* token, after the burst was spent
C1_Witness ==
    \E c \in Callers :
        /\ pc[c] = "token_wait"
        /\ 0 < tokens /\ tokens < TokenUnit
        /\ \E d \in Callers \ {c} : acquired[d] >= RATE_LIMIT_BURST

\* C3: over every interval of instants a..b the acquire() calls that return
\* number at most capacity + rate * (b - a), and the calls that return
\* without waiting at one instant number at most the whole tokens the
\* bucket held when that instant began
C3_NeverOverAdmits ==
    /\ \A a \in 0..MaxTime : \A b \in a..MaxTime :
          ReturnsIn(a, b) * TokenUnit <= Capacity + RateUnitsPerTick * (b - a)
    /\ fastNow * TokenUnit <= availAtTick

\* the bound is met with equality over an interval in which the burst was
\* spent at once and a later call had to wait for its token
C3_Witness ==
    \E a \in 0..MaxTime : \E b \in (a + 1)..MaxTime :
        /\ returnsAt[a] = RATE_LIMIT_BURST
        /\ returnsAt[b] >= 1
        /\ ReturnsIn(a, b) * TokenUnit = Capacity + RateUnitsPerTick * (b - a)
        /\ \E c \in Callers : acq[c].how = "waited"

\* the positions between taking the lock and returning from acquire()
InCriticalSection(c) == pc[c] \in {"locked", "token_wait"}

\* C4: acquire() calls are serialized: at most one task at a time is between
\* reading the bucket and returning from acquire(), and it holds the lock
C4_AcquireSerialized ==
    \A c \in Callers : InCriticalSection(c) =>
        /\ lockHolder = c
        /\ \A d \in Callers \ {c} : ~InCriticalSection(d)

\* one task sleeps in the token wait, between its refill and its reset,
\* while another task is queued on the lock
C4_Witness ==
    \E c \in Callers : \E d \in Callers \ {c} :
        /\ pc[c] = "token_wait"
        /\ 0 < tokens
        /\ pc[d] = "lock_wait"

\* C5: every return of acquire() follows, in the same call, either a
\* refilled count of at least one token from which one token was taken, or
\* a suspension of at least (1 - tokens) / rate computed from the refilled
\* count
C5_ReturnNeedsToken ==
    \A c \in Callers :
        /\ (pc[c] = "acquired" => acq[c].how \in {"consumed", "waited"})
        /\ acq[c].how = "consumed" =>
              /\ acq[c].refilled >= TokenUnit
              /\ acq[c].after = acq[c].refilled - TokenUnit
        /\ acq[c].how = "waited" =>
              /\ acq[c].refilled < TokenUnit
              /\ acq[c].slept * RateUnitsPerTick >= TokenUnit - acq[c].refilled

\* one call returned by taking a token and another returned after waiting
\* out a refill that began from a fraction of a token
C5_Witness ==
    \E c \in Callers : \E d \in Callers \ {c} :
        /\ pc[c] = "acquired" /\ acq[c].how = "consumed"
        /\ pc[d] = "acquired" /\ acq[d].how = "waited"
        /\ acq[d].refilled > 0

\* ------------------------------------------------ _request_with_retry
\* the step just taken was an HTTP request of task c, answered by
\* lastReq.outcome
Answered(c) == lastReq.caller = c

\* the content types that announce HTML
HtmlType(ct) == ct = "Text/HTML; charset=utf-8"

\* a 200 response that announces HTML
Html200Outcome(o) ==
    o.kind = "response" /\ o.status_code = 200 /\ HtmlType(o.content_type)

\* a response with status < 500 and # 429 that is not a 200 with HTML
PlainOutcome(o) ==
    /\ o.kind = "response"
    /\ o.status_code \in {200, 404}
    /\ ~Html200Outcome(o)

\* the response object the upstream produced for the latest request of c
AsReturned(c, o) ==
    [kind |-> "response", status_code |-> o.status_code,
     content_type |-> o.content_type, seq |-> requests[c]]

\* C2: a logical call never issues more than MAX_RETRIES + 1 HTTP requests,
\* whatever responses and faults the upstream produces
C2_AttemptsBounded == \A c \in Callers : requests[c] <= MAX_RETRIES + 1

\* a logical call ended after using its whole budget of attempts
C2_Witness ==
    \E c \in Callers : pc[c] = "done" /\ requests[c] = MAX_RETRIES + 1

\* C6: a 200 response that announces HTML ends the logical call with the
\* content-type error on the attempt it arrives, with budget left or not:
\* no backoff sleep is started for it and no request follows it
C6_Html200AlwaysFails ==
    \A c \in Callers :
        Answered(c) /\ Html200Outcome(lastReq.outcome) =>
            /\ pc[c] = "done"
            /\ result[c] = [kind |-> "ValueError", seq |-> requests[c]]
            /\ sleeps[c] = requests[c] - 1

\* the HTML arrives on a retry while attempts remain
C6_Witness ==
    \E c \in Callers :
        /\ Answered(c) /\ Html200Outcome(lastReq.outcome)
        /\ requests[c] = 2
        /\ requests[c] <= MAX_RETRIES

\* C7: a response with status < 500 and # 429 that is not a 200 with HTML
\* is returned unchanged on the attempt on which it arrives; on the first
\* attempt that is after exactly one request and no backoff sleep
C7_PlainResponseReturned ==
    \A c \in Callers :
        Answered(c) /\ PlainOutcome(lastReq.outcome) =>
            /\ pc[c] = "done"
            /\ result[c] = AsReturned(c, lastReq.outcome)
            /\ (retryableSeen[c] = 0 => requests[c] = 1 /\ sleeps[c] = 0)

\* a 404 that announces HTML came back on the first attempt
C7_Witness ==
    \E c \in Callers :
        /\ Answered(c)
        /\ lastReq.outcome.kind = "response"
        /\ lastReq.outcome.status_code = 404
        /\ HtmlType(lastReq.outcome.content_type)
        /\ requests[c] = 1
        /\ pc[c] = "done"

\* C8: when every attempt was answered with status 429 or >= 500 the call
\* ends after exactly MAX_RETRIES + 1 requests by returning the last
\* response unchanged; a call raises a fault only when a network fault hit
\* its last attempt and the content-type error only for a 200 with HTML
C8_StatusExhaustionReturnsLast ==
    \A c \in Callers :
        /\ Answered(c) /\ onlyStatus[c] /\ pc[c] = "done" =>
              /\ requests[c] = MAX_RETRIES + 1
              /\ result[c] = AsReturned(c, lastReq.outcome)
        /\ result[c].kind = "raise" =>
              /\ requests[c] = MAX_RETRIES + 1
              /\ (Answered(c) => lastReq.outcome.kind = "fault")
        /\ result[c].kind = "ValueError" =>
              (Answered(c) => Html200Outcome(lastReq.outcome))

\* a call that saw only 429 / >= 500 responses ended with a 500
C8_Witness ==
    \E c \in Callers :
        /\ Answered(c) /\ onlyStatus[c] /\ pc[c] = "done"
        /\ lastReq.outcome.status_code = 500
        /\ sleeps[c] = MAX_RETRIES

\* C9: a timeout or connection fault is retried while attempts remain, and
\* is raised to the caller exactly when it hits the last attempt
C9_FaultRetriedThenRaised ==
    \A c \in Callers :
        /\ Answered(c) /\ lastReq.outcome.kind = "fault" =>
              IF requests[c] <= MAX_RETRIES
              THEN pc[c] = "backoff" /\ result[c] = NoResult
              ELSE /\ pc[c] = "done"
                   /\ result[c] = [kind |-> "raise",
                                   fault |-> lastReq.outcome.fault,
                                   seq |-> requests[c]]
        /\ result[c].kind = "raise" => requests[c] = MAX_RETRIES + 1

\* a network error on the last attempt was raised after earlier retries
C9_Witness ==
    \E c \in Callers :
        /\ result[c].kind = "raise"
        /\ result[c].fault = "NetworkError"
        /\ sleeps[c] = MAX_RETRIES

\* C10: after k retryable outcomes followed by a non-retryable response the
\* call has made exactly k + 1 requests and k backoff sleeps, one sleep
\* before every request but the first, and returns that last response
C10_RetriesThenResponse ==
    \A c \in Callers :
        /\ sleeps[c] <= requests[c] /\ requests[c] <= sleeps[c] + 1
        /\ (pc[c] = "acquired" => sleeps[c] = requests[c])
        /\ Answered(c) /\ PlainOutcome(lastReq.outcome) =>
              /\ retryableSeen[c] <= MAX_RETRIES
              /\ requests[c] = retryableSeen[c] + 1
              /\ sleeps[c] = retryableSeen[c]
              /\ result[c] = AsReturned(c, lastReq.outcome)
              /\ result[c].seq = retryableSeen[c] + 1

\* a 200 arrived on the last attempt, after MAX_RETRIES retryable outcomes
C10_Witness ==
    \E c \in Callers :
        /\ Answered(c) /\ PlainOutcome(lastReq.outcome)
        /\ lastReq.outcome.status_code = 200
        /\ retryableSeen[c] = MAX_RETRIES
        /\ pc[c] = "done"

\* C11: with jitter disabled the delay of an attempt equals
\* min(base * 2^attempt, BACKOFF_MAX_SECONDS) and is not smaller than the delay
\* of the attempt before; with or without jitter it never exceeds
\* BACKOFF_MAX_SECONDS
C11_BackoffDelay ==
    bo_attempt # NoDelay =>
        /\ bo_delay <= config.max
        /\ ~config.jitter =>
              /\ bo_delay = IF config.base * 2^bo_attempt <= config.max
                            THEN config.base * 2^bo_attempt
                            ELSE config.max
              /\ (bo_prev # NoDelay => bo_prev <= bo_delay)

\* without jitter the delay grew from one attempt to the next and reached the
\* cap, which the uncapped exponential exceeds
C11_Witness ==
    /\ ~config.jitter
    /\ bo_attempt >= 1
    /\ bo_prev < bo_delay
    /\ bo_delay = config.max
    /\ config.base * 2^bo_attempt > config.max

\* C12: provided every acquire() and every HTTP request completes, every
\* logical call that was started ends, with a response returned or an
\* exception raised, and has then made at most MAX_RETRIES + 1 attempts
C12_CallTerminates ==
    /\ \A c \in Callers : (pc[c] # "idle") ~> (pc[c] = "done")
    /\ [](\A c \in Callers :
            pc[c] = "done" =>
                /\ result[c].kind \in {"response", "raise", "ValueError"}
                /\ result[c].seq = requests[c]
                /\ requests[c] \in 1..(MAX_RETRIES + 1))

\* every call has ended, one of them raising on its last allowed attempt
\* after the clock ran past MaxTime during its sleeps
C12_Witness ==
    /\ \A c \in LiveCallers : pc[c] = "done"
    /\ \E c \in Callers :
          /\ result[c].kind = "raise"
          /\ result[c].seq = MAX_RETRIES + 1
    /\ last_update < now
    /\ now = MaxTime

\* the field each operation requires, by the per-operation table
RequiredField(o) ==
    CASE o = "GetLeagueMatches" -> "leagueId"
      [] o = "GetTeam" -> "teamId"
      [] o = "GetMatch" -> "matchId"

AbsentOrEmpty(p, f) == f \notin DOMAIN p \/ p[f] = JNull \/ p[f] = JStr("")

\* C13: for every payload, validation of GetLeagueMatches / GetTeam / GetMatch
\* returns (False, details) with the reason "<field> is required" naming
\* leagueId / teamId / matchId exactly when that field is absent or empty, and
\* (True, None) otherwise; ListLeagues returns (True, None) for every payload
C13_ValidationTable ==
    mapped.fn = "validate" =>
        IF mapped.op = "ListLeagues"
        THEN mapped.out = [is_valid |-> TRUE, details |-> JNull]
        ELSE IF AbsentOrEmpty(payload, RequiredField(mapped.op))
        THEN /\ mapped.out.is_valid = FALSE
             /\ mapped.out.details.reason =
                    RequiredField(mapped.op) \o " is required"
        ELSE mapped.out = [is_valid |-> TRUE, details |-> JNull]

\* GetTeam was validated against a payload that carries the other two fields
\* and an empty teamId, and was refused
C13_Witness ==
    /\ mapped.fn = "validate" /\ mapped.op = "GetTeam"
    /\ DOMAIN payload = Fields
    /\ payload["teamId"] = JStr("")
    /\ payload["leagueId"] = JStr("bl1")
    /\ mapped.out.is_valid = FALSE

\* C14: get_operation(name) fails with the unknown-operation error, whose
\* message carries the submitted name, for every name that is not one of the
\* four registered operations, and returns a descriptor holding validate,
\* execute and normalize for every registered name
C14_GetOperation ==
    mapped.fn = "get_operation" =>
        IF operation_type \in
              {"ListLeagues", "GetLeagueMatches", "GetTeam", "GetMatch"}
        THEN /\ ~mapped.out.raised
             /\ {"validate", "execute", "normalize"} \subseteq
                    DOMAIN mapped.out.operation
        ELSE /\ mapped.out.raised
             /\ mapped.out.message =
                    "Unknown operationType: " \o operation_type

\* a name that differs from a registered one only in letter case was refused
C14_Witness ==
    /\ mapped.fn = "get_operation"
    /\ operation_type = "getTeam"
    /\ mapped.out.raised

\* C16: normalize yields, for a raw result of any shape, {leagues|matches: L,
\* count: n} with L the input if it is a list and the empty list otherwise and
\* n the length of L, and {team|match: M} with M the input if it is a map and
\* the empty map otherwise
C16_NormalizeTotal ==
    mapped.fn = "normalize" =>
        LET L == IF raw.json = "list" THEN raw ELSE JList(<<>>)
            M == IF raw.json = "map" THEN raw ELSE JMap(<<>>)
        IN  CASE mapped.op = "ListLeagues" ->
                   mapped.out = [leagues |-> L, count |-> Len(L.items)]
              [] mapped.op = "GetLeagueMatches" ->
                   mapped.out = [matches |-> L, count |-> Len(L.items)]
              [] mapped.op = "GetTeam" -> mapped.out = [team |-> M]
              [] mapped.op = "GetMatch" -> mapped.out = [match |-> M]

\* a non-empty map was normalized as a list of leagues
C16_Witness ==
    /\ mapped.fn = "normalize" /\ mapped.op = "ListLeagues"
    /\ raw.json = "map" /\ DOMAIN raw.fields # {}
    /\ mapped.out.count = 0

Registered == {"ListLeagues", "GetLeagueMatches", "GetTeam", "GetMatch"}

\* the request names no registered operation, or its payload lacks the field
\* the operation requires
Refused ==
    \/ operation_type \notin Registered
    \/ /\ operation_type # "ListLeagues"
       /\ AbsentOrEmpty(payload, RequiredField(operation_type))

\* C15: a request whose operationType is not registered or whose payload
\* fails validation never reaches execute: no call of _request_with_retry (no
\* acquire(), no HTTP request) is made for it, and it ends with a 400 reply
\* that carries the reason
C15_RefusedBeforeNetwork ==
    Refused =>
        /\ fetched = <<>>
        /\ hpc \in {"received", "responded"}
        /\ hpc = "responded" =>
              /\ reply.status_code = 400
              /\ IF operation_type \notin Registered
                 THEN reply.detail.error.text =
                          "Unknown operationType: " \o operation_type
                 ELSE reply.detail.details.reason =
                          RequiredField(operation_type) \o " is required"

\* GetMatch was refused for a null matchId
C15_Witness ==
    /\ hpc = "responded"
    /\ operation_type = "GetMatch"
    /\ payload = [matchId |-> JNull]
    /\ reply.status_code = 400

\* the candidate leagues of the scan, in order
Candidates == <<"bl1", "bl2", "pl", "sa", "ll">>

\* the matches the k-th fetch delivered: none if it failed or was no list
MatchesOf(k) ==
    IF fetched[k].ok /\ fetched[k].value.json = "list"
    THEN fetched[k].value.items
    ELSE <<>>

TeamOf(match, slot) ==
    IF slot = 1 THEN match.fields["team1"] ELSE match.fields["team2"]

\* the positions <<match, slot>> of the k-th league that bear the team id
TeamHits(k, id) ==
    {h \in (1..Len(MatchesOf(k))) \X {1, 2} :
        PyStr(TeamOf(MatchesOf(k)[h[1]], h[2]).fields["teamId"]) = id}

Before(g, h) == g[1] < h[1] \/ (g[1] = h[1] /\ g[2] <= h[2])

\* get_team was called and is over
GetTeamDone == operation_type = "GetTeam" /\ hpc = "responded" /\ ~Refused

\* C17: get_team fetches the candidate leagues in their fixed order and
\* returns the first hit in scan order (league, then match, then team1 before
\* team2); leagues whose fetch failed are passed over, so that the result is
\* decided by the leagues fetched successfully alone
C17_FirstHitWins ==
    operation_type = "GetTeam" =>
        /\ Len(fetched) <= Len(Candidates)
        /\ \A k \in 1..Len(fetched) : fetched[k].league = Candidates[k]
        /\ (GetTeamDone /\ ~raw.raised) =>
              LET k == Len(fetched)
                  id == payload["teamId"].text
              IN  /\ \A j \in 1..(k - 1) : TeamHits(j, id) = {}
                  /\ \E h \in TeamHits(k, id) :
                        /\ \A g \in TeamHits(k, id) : Before(h, g)
                        /\ raw.value = TeamOf(MatchesOf(k)[h[1]], h[2])

\* the fetch of the first league failed and the second league holds the
\* team as team2 of its first match, before a match that has it as team1
C17_Witness ==
    /\ GetTeamDone /\ ~raw.raised
    /\ Len(fetched) = 2
    /\ ~fetched[1].ok
    /\ raw.value = Team(7, "a2")

\* C18: get_team fails if and only if no candidate league yields a match for
\* the team id, then with the not-found error and after every candidate
\* league was tried once, also when every fetch failed; it fails with no
\* other error
C18_NotFoundIffNoHit ==
    GetTeamDone =>
        LET id == payload["teamId"].text
            none == \A k \in 1..Len(fetched) : TeamHits(k, id) = {}
        IN  /\ raw.raised <=> none
            /\ raw.raised =>
                  /\ raw.exception = "ValueError"
                  /\ raw.message.text = "Team not found."
                  /\ reply.status_code = 404
                  /\ Len(fetched) = Len(Candidates)
                  /\ \A k \in 1..Len(fetched) :
                        fetched[k].league = Candidates[k]

\* every one of the five fetches failed
C18_Witness ==
    /\ GetTeamDone /\ raw.raised
    /\ Len(fetched) = 5
    /\ \A k \in 1..Len(fetched) : ~fetched[k].ok

\* get_match was called and is over
GetMatchDone == operation_type = "GetMatch" /\ hpc = "responded" /\ ~Refused

\* the positions of the k-th league's matches that bear the match id
MatchHits(k, id) ==
    {i \in 1..Len(MatchesOf(k)) :
        PyStr(MatchesOf(k)[i].fields["matchID"]) = id}

\* C19 as stated: get_match scans the candidate leagues like get_team, a
\* league whose fetch fails is skipped and the next one is fetched, and
\* not-found is raised only after all candidate leagues were tried
C19_ScansAllCandidates ==
    GetMatchDone =>
        /\ \A k \in 1..Len(fetched) : fetched[k].league = Candidates[k]
        /\ raw.raised => Len(fetched) = Len(Candidates)

\* C19, amended: get_match fetches the default league bl1 and no other; it
\* returns the first match of that league's list that bears the match id, and
\* raises not-found in every other case, also when the fetch of bl1 failed
C19_DefaultLeagueOnly ==
    GetMatchDone =>
        LET id == payload["matchId"].text
        IN  /\ Len(fetched) = 1
            /\ fetched[1].league = "bl1"
            /\ IF MatchHits(1, id) # {}
               THEN \E i \in MatchHits(1, id) :
                       /\ \A j \in MatchHits(1, id) : i <= j
                       /\ raw = [raised |-> FALSE, value |-> MatchesOf(1)[i]]
               ELSE /\ raw.raised
                    /\ raw.exception = "ValueError"
                    /\ raw.message.text = "Match not found."
                    /\ reply.status_code = 404

\* the fetch of bl1 failed and not-found was raised after that one fetch
C19_Witness ==
    /\ GetMatchDone
    /\ Len(fetched) = 1 /\ ~fetched[1].ok
    /\ raw.raised /\ reply.status_code = 404

\* C20: a ListLeagues or GetLeagueMatches request is never answered 404,
\* whatever the upstream does and whatever text its body or the URL holds;
\* 404 is the answer only to a GetTeam / GetMatch request whose id the scan
\* did not find
C20_NotFoundOnlyFromScan ==
    (hpc = "responded" /\ reply.status_code = 404) =>
        /\ operation_type \in {"GetTeam", "GetMatch"}
        /\ raw.raised
        /\ raw.message.text \in {"Team not found.", "Match not found."}

\* ------------------------------------------------- the bucket, continued
\* C23: a bucket starts full: the first RATE_LIMIT_BURST acquire() calls
\* made at the instant the bucket is created return without suspending, and
\* the next call made at that instant finds no token and suspends for
\* (1 - tokens) / rate before it returns
C23_StartsFull ==
    /\ returnsAt[0] <= RATE_LIMIT_BURST
    /\ now = 0 =>
          /\ fastNow = returnsAt[0]
          /\ returnsAt[0] < RATE_LIMIT_BURST =>
                \A c \in Callers : pc[c] # "token_wait"
    /\ \A c \in Callers :
          (acq[c].start = 0 /\ acq[c].how \in {"waiting", "waited"}) =>
             /\ returnsAt[0] = RATE_LIMIT_BURST
             /\ acq[c].refilled = 0
             /\ pc[c] = "token_wait" =>
                   until[c] = CeilDiv(TokenUnit, RateUnitsPerTick)
             /\ acq[c].how = "waited" =>
                   acq[c].slept * RateUnitsPerTick >= TokenUnit

\* the burst was taken at the instant of creation and the call after it,
\* made at the same instant, returned only after its wait
C23_Witness ==
    \E c \in Callers :
        /\ returnsAt[0] = RATE_LIMIT_BURST
        /\ acq[c].how = "waited" /\ acq[c].start = 0
        /\ pc[c] = "acquired"

\* C24: after an acquire() that waited the bucket holds tokens = 0 and
\* last_update = the instant the caller woke up, however long it slept and
\* whatever fraction of a token was there before the wait; after an
\* acquire() that did not wait, tokens is the refilled count minus one token
\* and last_update is the instant of the call
C24_StateAfterAcquire ==
    \A c \in Callers :
        /\ acq[c].how = "waited" =>
              /\ acq[c].after = 0
              /\ acq[c].updated = acq[c].start + acq[c].slept
        /\ acq[c].how = "consumed" =>
              /\ acq[c].after = acq[c].refilled - TokenUnit
              /\ acq[c].updated = acq[c].start

\* a caller that found a fraction of a token slept longer than its wait
\* and left the bucket empty
C24_Witness ==
    \E c \in Callers :
        /\ acq[c].how = "waited"
        /\ acq[c].refilled > 0
        /\ acq[c].slept > WaitTime(acq[c].refilled)
        /\ acq[c].after = 0
        /\ acq[c].updated = acq[c].start + acq[c].slept

\* ---------------------------------------- _request_with_retry, continued
\* C25: every HTTP request of a logical call, retries included, follows an
\* acquire() of its own that returned: the requests issued never outnumber
\* the acquire() calls that returned for the call, a returned acquire() is
\* spent by the next request, and a call that ends after n requests was
\* admitted n times
C25_AcquirePerRequest ==
    \A c \in Callers :
        /\ requests[c] <= acquired[c]
        /\ acquired[c] = IF pc[c] = "acquired" THEN requests[c] + 1
                         ELSE requests[c]

\* a call that used all its attempts was admitted once for each of them
C25_Witness ==
    \E c \in Callers :
        /\ pc[c] = "done"
        /\ requests[c] = MAX_RETRIES + 1
        /\ acquired[c] = MAX_RETRIES + 1

\* C27: _request_with_retry never sleeps after its last attempt: when a
\* logical call has ended, by a response, by the content-type error or by
\* a network fault, its backoff sleeps number its HTTP requests minus one,
\* and at most MAX_RETRIES
C27_NoSleepAfterLastAttempt ==
    \A c \in Callers :
        pc[c] = "done" =>
            /\ sleeps[c] = requests[c] - 1
            /\ sleeps[c] <= MAX_RETRIES

\* one call ended by a fault on its last attempt after MAX_RETRIES sleeps
\* and another ended on its first response without any sleep
C27_Witness ==
    \E c \in Callers : \E d \in Callers \ {c} :
        /\ pc[c] = "done" /\ result[c].kind = "raise"
        /\ sleeps[c] = MAX_RETRIES /\ requests[c] = MAX_RETRIES + 1
        /\ pc[d] = "done" /\ result[d].kind = "response"
        /\ sleeps[d] = 0 /\ requests[d] = 1

\* ------------------------------------------------- the lock of the bucket
\* a step during which task c stays suspended in the token wait
StaysInTokenWait(c) == pc[c] = "token_wait" /\ pc'[c] = "token_wait"

\* C29: the lock is held for the whole token wait: while a caller is
\* suspended in acquire() waiting for a token it holds the lock, no other
\* caller is at the refill or in the token wait, the bucket's tokens and
\* last_update stay as the waiting caller left them, and no other caller
\* returns from acquire()
C29_LockHeldAcrossWait ==
    /\ [](\A c \in Callers : pc[c] = "token_wait" =>
            /\ lockHolder = c
            /\ tokens = acq[c].refilled
            /\ last_update = acq[c].start
            /\ \A d \in Callers \ {c} : pc[d] \notin {"locked", "token_wait"})
    /\ [][\A c \in Callers : StaysInTokenWait(c) =>
            /\ tokens' = tokens
            /\ last_update' = last_update
            /\ acquired' = acquired]_vars

\* the sleep of one caller is over and the token it waited for has been
\* earned, yet the caller queued on the lock has not touched the bucket
C29_Witness ==
    \E c \in Callers : \E d \in Callers \ {c} :
        /\ pc[c] = "token_wait"
        /\ now >= until[c]
        /\ now > acq[c].start
        /\ pc[d] = "lock_wait"
        /\ tokens = acq[c].refilled
        /\ last_update = acq[c].start

\* C30: the backoff sleep between attempts is taken outside the limiter's
\* lock: a logical call sleeping in backoff neither holds the lock nor is
\* queued for it, so that the lock is held only by calls that are inside
\* acquire() and is free when there are none
C30_BackoffOutsideLock ==
    /\ \A c \in Callers : pc[c] = "backoff" =>
          /\ lockHolder # c
          /\ \A i \in 1..Len(waiters) : waiters[i] # c
    /\ (\A c \in Callers : ~InCriticalSection(c)) =>
          /\ lockHolder = NoCaller
          /\ waiters = <<>>

\* while one call sleeps in backoff, its deadline still ahead, another call
\* holds the lock with a token at hand and is admitted by its next step
C30_Witness ==
    \E c \in Callers : \E d \in Callers \ {c} :
        /\ pc[c] = "backoff"
        /\ now < until[c]
        /\ pc[d] = "locked"
        /\ lockHolder = d
        /\ Refill(tokens, now - last_update) >= TokenUnit

\* ------------------- ListLeagues and GetLeagueMatches through the adapter
\* the request of task c went through to execute
Executed(c) == serving[c].answer.kind \in {"response", "fault"}

\* a response that is a 200 with HTML, or passes raise_for_status() with a
\* blank body or with a body that is no JSON
ContentFault(o) ==
    /\ o.kind = "response"
    /\ \/ o.status_code = 200 /\ HtmlType(o.content_type)
       \/ o.status_code < 400 /\ o.body.text \in {"", "  "}
       \/ o.status_code < 400 /\ o.body.parsed = [json |-> "invalid"]

\* C21: content-type and parse faults are never retried: once the upstream
\* has answered a request of list_leagues / get_league_matches with a
\* 200-with-HTML, with a blank body or with a body that is not JSON under a
\* status below 400, the operation has failed with ValueError, and the call
\* issues no further HTTP request and takes no backoff sleep
C21_ContentFaultsNotRetried ==
    /\ [](\A c \in Callers : (Executed(c) /\ ContentFault(serving[c].answer)) =>
            /\ pc[c] = "done"
            /\ serving[c].raw.raised
            /\ serving[c].raw.exception = "ValueError"
            /\ ~serving[c].reply.success
            /\ Len(trail[c]) = requests[c]
            /\ sleeps[c] = requests[c] - 1)
    /\ [][\A c \in Callers : (Executed(c) /\ ContentFault(serving[c].answer)) =>
            /\ requests'[c] = requests[c]
            /\ sleeps'[c] = sleeps[c]
            /\ serving'[c] = serving[c]]_vars

\* a ListLeagues request failed on a blank body given on its first attempt
\* and a GetLeagueMatches request on an unparsable body given on a retry,
\* and time went on without a further request
C21_Witness ==
    \E c \in Callers : \E d \in Callers \ {c} :
        /\ serving[c].operation_type = "ListLeagues"
        /\ ContentFault(serving[c].answer)
        /\ serving[c].answer.body.text = "  "
        /\ requests[c] = 1 /\ sleeps[c] = 0
        /\ serving[c].raw.message.text = "Empty response from API"
        /\ serving[d].operation_type = "GetLeagueMatches"
        /\ ContentFault(serving[d].answer)
        /\ serving[d].answer.body.text = "oops"
        /\ requests[d] = 2 /\ sleeps[d] = 1
        /\ serving[d].raw.message.text = "Failed to parse JSON response."
        /\ now = MaxTime

\* C22: a ListLeagues or GetLeagueMatches request whose last upstream
\* response has status >= 400, a 4xx other than 429 returned by the attempt
\* it came on or a 429 / 5xx on attempt MAX_RETRIES + 1, ends as
\* HTTPStatusError and is
\* answered 502 "Upstream API failed", never as a success, whatever the
\* body of that response: blank, unparsable or well-formed JSON
C22_ErrorStatusIs502 ==
    \A c \in Callers :
        (Executed(c) /\ pc[c] = "done" /\ serving[c].answer.kind = "response"
            /\ serving[c].answer.status_code >= 400) =>
           /\ serving[c].raw.raised
           /\ serving[c].raw.exception = "HTTPStatusError"
           /\ serving[c].reply.status_code = 502
           /\ ~serving[c].reply.success
           /\ serving[c].reply.detail.error.text = "Upstream API failed"
           /\ requests[c] = Len(trail[c])
           /\ serving[c].answer.status_code \in {429, 500} =>
                 requests[c] = MAX_RETRIES + 1

\* a 404 with an empty body on the only attempt and a 500 with a
\* well-formed JSON body on the last attempt were both answered 502
C22_Witness ==
    \E c \in Callers : \E d \in Callers \ {c} :
        /\ Executed(c) /\ pc[c] = "done"
        /\ serving[c].answer.kind = "response"
        /\ serving[c].answer.status_code = 404
        /\ serving[c].answer.body.text = ""
        /\ requests[c] = 1
        /\ serving[c].reply.status_code = 502
        /\ Executed(d) /\ pc[d] = "done"
        /\ serving[d].answer.kind = "response"
        /\ serving[d].answer.status_code = 500
        /\ serving[d].answer.body.parsed # [json |-> "invalid"]
        /\ requests[d] = MAX_RETRIES + 1
        /\ serving[d].reply.status_code = 502

\* the result of _request_with_retry that the answer o alone stands for
ByAnswer(c, o) ==
    IF o.kind = "fault"
    THEN [kind |-> "raise", fault |-> o.fault, seq |-> requests[c]]
    ELSE [kind |-> "response", status_code |-> o.status_code,
          content_type |-> o.content_type, seq |-> requests[c]]

\* C28: retryable failures of both kinds draw on one attempt budget and
\* the last attempt alone decides: every answer before the last of a
\* logical call was a 429 / >=500 response or a network fault, in any mix
\* and at most MAX_RETRIES of them, and a call ended on attempt
\* MAX_RETRIES + 1 by such an answer returns that response, or raises that
\* fault, whatever the attempts before it met
C28_LastAttemptDecides ==
    \A c \in Callers :
        /\ Len(trail[c]) = requests[c]
        /\ requests[c] <= MAX_RETRIES + 1
        /\ \A i \in 1..Len(trail[c]) :
              (i < Len(trail[c]) \/ pc[c] # "done") =>
                  trail[c][i] \in {"status", "fault"}
        /\ (pc[c] = "done" /\ trail[c][Len(trail[c])] \in {"status", "fault"}) =>
              /\ requests[c] = MAX_RETRIES + 1
              /\ result[c] = ByAnswer(c, serving[c].answer)

\* a call met a 429 / >=500 response, then a network fault, then a 500 on
\* its last attempt, and returned that 500
C28_Witness ==
    \E c \in Callers :
        /\ pc[c] = "done"
        /\ trail[c] = <<"status", "fault", "status">>
        /\ serving[c].answer.status_code = 500
        /\ result[c] = ByAnswer(c, serving[c].answer)

\* the names the constructor of the DecisionMapper registers
RegisteredNames == {"ListLeagues", "GetLeagueMatches", "GetTeam", "GetMatch"}

\* C26: serving requests changes no shared state but the limiter's:
\* get_operation, validate, execute and normalize leave the registry's
\* mapping of names to handlers and the provider configuration as they were
\* built, and the registered names are the same four in every state
C26_RegistryAndConfigFixed ==
    /\ [](DOMAIN self_operations = RegisteredNames)
    /\ [][self_operations' = self_operations /\ config' = config]_vars

\* two requests were served to their replies, one of them refused for its
\* unknown operation, the limiter gave tokens out and moved its
\* last_update, and the registry still maps the four names
C26_Witness ==
    \E c \in Callers : \E d \in Callers \ {c} :
        /\ pc[c] = "done" /\ serving[c].reply.status_code = 200
        /\ serving[d].operation_type = "DeleteLeague"
        /\ serving[d].reply.status_code = 400
        /\ tokens < Capacity /\ last_update > 0
        /\ DOMAIN self_operations = RegisteredNames
        /\ config.base = BACKOFF_BASE_MS

\* ---------------------------------------- _request_with_retry, continued
\* a response that announces HTML under a status other than 200
HtmlNot200(o) ==
    o.kind = "response" /\ HtmlType(o.content_type) /\ o.status_code # 200

\* C31: a response that announces HTML under a status other than 200 never
\* ends the call with the content-type error; it follows the status rule
\* alone: with status 429 or >= 500 it is retried while attempts remain and
\* returned as it is on the last attempt, with any other status it is
\* returned as it is on the attempt it arrives
C31_HtmlOtherStatusFollowsStatus ==
    \A c \in Callers :
        (Answered(c) /\ HtmlNot200(lastReq.outcome)) =>
            LET o == lastReq.outcome
            IN  /\ result[c].kind # "ValueError"
                /\ IF RetryableStatus(o) /\ requests[c] <= MAX_RETRIES
                   THEN /\ pc[c] = "backoff"
                        /\ sleeps[c] = requests[c]
                        /\ result[c] = NoResult
                   ELSE /\ pc[c] = "done"
                        /\ result[c] = AsReturned(c, o)
                        /\ sleeps[c] = requests[c] - 1

\* a 429 that announces HTML was retried, and came again on the last
\* attempt, where it was returned
C31_Witness ==
    \E c \in Callers :
        /\ Answered(c) /\ HtmlNot200(lastReq.outcome)
        /\ lastReq.outcome.status_code = 429
        /\ requests[c] = MAX_RETRIES + 1
        /\ onlyStatus[c]
        /\ pc[c] = "done"
        /\ result[c].kind = "response" /\ result[c].status_code = 429

\* ------------------------------------------- the backoff delay, continued
\* C33: with jitter enabled and a positive base, the delay computed for an
\* attempt is never smaller than the delay computed for the attempt before
\* it, whatever the two jitter draws were
C33_JitteredDelayNonDecreasing ==
    (config.jitter /\ config.base > 0 /\ bo_prev # NoDelay) =>
        bo_prev <= bo_delay

\* below the cap, the earlier attempt drew the whole jitter of a tenth and
\* the later attempt drew none, and the later delay is still the larger
C33_Witness ==
    /\ config.jitter /\ config.base > 0
    /\ bo_attempt >= 1
    /\ bo_prev = config.base * 2^(bo_attempt - 1)
                    + (config.base * 2^(bo_attempt - 1)) \div 10
    /\ bo_delay = config.base * 2^bo_attempt
    /\ bo_delay < config.max
    /\ bo_prev < bo_delay

\* ------------------------------------ the bucket under a stepping clock
\* C34: 0 <= tokens <= capacity holds in every state of the bucket also
\* when the wall clock read by acquire() steps backwards between two calls
\* (now < last_update): the refill over a negative elapsed time never
\* leaves tokens below zero
C34_TokensWithinCapacityUnderSkew == 0 <= tokens /\ tokens <= Capacity

\* ------------------------------------------- get_team through the adapter
\* C32: get_team stops at the first hit: the candidate leagues are fetched
\* once each, in their order; a league in which the team id was found is
\* the last one fetched and ends the call; one get_team call issues at most
\* (number of candidate leagues) * (MAX_RETRIES + 1) HTTP requests, at most
\* MAX_RETRIES + 1 of them for each league; after get_team is over no
\* request is issued
C32_StopsAtFirstHit ==
    /\ [](\A c \in TeamTasks :
            LET id == payload["teamId"].text
            IN  /\ Len(fetched) <= Len(Candidates)
                /\ \A k \in 1..Len(fetched) :
                      /\ fetched[k].league = Candidates[k]
                      /\ TeamHits(k, id) # {} =>
                            k = Len(fetched) /\ hpc = "responded"
                /\ requests[c] <= Len(Candidates) * (MAX_RETRIES + 1)
                /\ requests[c] <=
                      (IF pc[c] \in {"idle", "done"}
                       THEN Len(fetched) ELSE Len(fetched) + 1)
                         * (MAX_RETRIES + 1))
    /\ [][hpc = "responded" =>
             /\ requests' = requests
             /\ fetched' = fetched
             /\ hpc' = hpc]_vars

\* the fetch of bl1 failed after MAX_RETRIES + 1 requests, the team was
\* found in bl2 on the first request for it, and time went on with no
\* request for pl, sa or ll
C32_Witness ==
    \E c \in TeamTasks :
        /\ hpc = "responded"
        /\ Len(fetched) = 2
        /\ ~fetched[1].ok
        /\ TeamHits(2, payload["teamId"].text) # {}
        /\ requests[c] = MAX_RETRIES + 2
        /\ reply.status_code = 200
        /\ until[c] = 0 /\ now = MaxTime

\* -------------------------------------- the bucket on a running event loop
\* task c has called acquire() and the call has not returned
InsideAcquire(c) == pc[c] \in {"acquire", "lock_wait", "locked", "token_wait"}

\* C35: every acquire() call eventually returns: with a positive rate, the
\* lock handed to its waiters in turn and the tasks and the clock running,
\* no caller stays queued on the lock or in the token wait forever; and the
\* lock is free, with nobody queued, whenever no caller is past the entry
\* of acquire()
C35_AcquireReturns ==
    /\ \A c \in Callers : InsideAcquire(c) ~> (pc[c] = "acquired")
    /\ []((\A c \in Callers : pc[c] \notin {"lock_wait", "locked", "token_wait"})
            => (lockHolder = NoCaller /\ waiters = <<>>))

\* every task had all its calls returned, more calls than the burst and
\* the refill up to MaxTime provide for, and the lock is free
C35_Witness ==
    /\ \A c \in Callers : pc[c] = "acquired" /\ acquired[c] = MaxAcquires
    /\ NumCallers * MaxAcquires * TokenUnit > Capacity + RateUnitsPerTick * MaxTime
    /\ lockHolder = NoCaller /\ waiters = <<>>
====
